---- MODULE Spec2Model ----
(***************************************************************************)
(* Model of keyboard_logger.WrappedLogger: the summary accumulator, the    *)
(* word segmentation tracker, the word accuracy scorer and the durable     *)
(* summary store.                                                          *)
(*                                                                         *)
(* Conventions.  A Python str is a sequence of one-character strings       *)
(* (<<"t","a","b">> is "tab").  A Python Optional is a sequence of length  *)
(* at most one: None is <<>> and a value v is <<v>>.  A dict is a function *)
(* whose DOMAIN is the set of its keys.  A datetime is an integer number   *)
(* of milliseconds; an ISO timestamp is that integer and its first ten     *)
(* characters (the UTC date) are the day number.  typing_profile numbers   *)
(* are kept in the unit of their rounding: tenths or thousandths.          *)
(***************************************************************************)
EXTENDS Integers, Sequences, FiniteSets, TLC

VARIABLES
    now,                        \* the wall clock, in ms
    pc,                         \* position of the logger process
    ret,                        \* where _persist_summary returns to
    raised,                     \* exception raised by the last handler call
    summary,                    \* self.summary
    last_press_time,            \* self.last_press_time
    last_key,                   \* self.last_key
    last_logged_key,            \* self.last_logged_key
    rage_streak,                \* self.rage_streak
    word_buffer,                \* self.word_buffer
    previous_word,              \* self.previous_word
    current_day_label,          \* self.current_day_label
    word_start,                 \* self.word_start
    word_last,                  \* self.word_last
    pending_keys,               \* self.pending_keys, in insertion order
    current_word_letter_events, \* self.current_word_letter_events
    log_open,                   \* self.log_file is open
    log_lines,                  \* lines this process appended to the raw log
    disk,                       \* the file at summary_path
    tmp,                        \* the file at summary_path + ".tmp"
    accuracy_points,            \* self.accuracy_points
    accuracy_target,            \* self.accuracy_target
    min_length,                 \* self.word_checker.min_length
    zipf_ok,                    \* words the frequency oracle rates >= threshold
    loaded,                     \* the document read by the constructor
    press_log,                  \* history: <<key, interval_ms>> of each on_press call
    presses,                    \* on_press calls so far (all processes)
    runs,                       \* logger processes started so far
    speed_config,               \* the speed_points configuration
    session,                    \* accumulators of the current speed session
    speed_points,               \* summary["speed_points"]
    injected,                   \* history: the key sequences given to inject_keys
    returned,                   \* the summary the last inject_keys call returned
    debug_log,                  \* lines appended to the debug log by the scripts
    resets,                     \* reset_daily runs so far
    snapshot,                   \* the snapshot the last build_snapshot call returned
    progress,                   \* the document at progress_path
    widget_settings,            \* what load_widget_settings() returns for the sample mode
    widget_call                 \* history: the last persist_widget_progress call, with the
                                \* summary object it loaded and the one it built the snapshot from
VARIABLES
    insight_mode,               \* the mode the insight operations run in
    llm_env,                    \* whether the openai module and an API key are there
    insight_pc,                 \* position of the insight operation in progress
    insight_frame,              \* local variables of the insight operation in progress
    insight_ret,                \* history: how the last insight operation ended
    feed,                       \* the document at the widget feed path
    gpt_state,                  \* the document at the widget state path
    insight_out,                \* the document at the insight output path
    insight_meta                \* the document at the insight output path + ".meta"
VARIABLES
    word_checker,               \* a WordChecker as constructed, with the frequency oracle
    checked,                    \* history: the last is_correct call and what it returned
    health,                     \* the document at the health status path
    main_pc,                    \* position of main()
    listener_error,             \* history: the exception the listener raised in main()
    propagated                  \* the exception main() ended with

vars == <<now, pc, ret, raised, summary, last_press_time, last_key,
          last_logged_key, rage_streak, word_buffer, previous_word,
          current_day_label, word_start, word_last, pending_keys,
          current_word_letter_events, log_open, log_lines, disk, tmp,
          accuracy_points, accuracy_target, min_length, zipf_ok, loaded,
          press_log, presses, runs, speed_config, session, speed_points,
          injected, returned, debug_log, resets, snapshot, progress,
          widget_settings, widget_call, insight_mode, llm_env, insight_pc,
          insight_frame, insight_ret, feed, gpt_state, insight_out, insight_meta,
          word_checker, checked, health, main_pc, listener_error, propagated>>

(***************************************************************************)
(* Bounds of the model.                                                    *)
(***************************************************************************)
MaxPresses == 4         \* on_press calls in Spec
MaxScorePresses == 4    \* on_press calls in SpecScore
MaxRagePresses == 5     \* on_press calls in SpecRage
MaxLoadPresses == 3     \* on_press calls in SpecLoad
MaxResumePresses == 3   \* on_press calls in SpecResume, over all processes
MaxResumeRuns == 3      \* logger processes started one after the other
MaxPairPresses == 4     \* on_press calls in SpecPairs
MaxSessionOps == 4      \* intervals and words of one speed session
MaxSessions == 2        \* speed sessions committed
MaxResetPresses == 3    \* on_press calls in SpecReset, over all processes
MaxResetRuns == 2       \* logger processes in SpecReset
MaxResets == 1          \* reset_daily runs in SpecReset
MaxInjects == 2         \* inject_keys runs in SpecInject
MaxCycles == 2          \* run_cycle iterations in SpecInsight
MaxMainPresses == 2     \* on_press calls in SpecMain
MaxBurstPresses == 5    \* on_press calls in SpecBurst
MaxOverlapPresses == 3  \* on_press calls in SpecOverlap
MaxCounterPresses == 4  \* on_press calls in SpecCounters

(***************************************************************************)
(* Python values.                                                          *)
(***************************************************************************)
None == <<>>
Some(v) == <<v>>
IsNone(o) == o = <<>>
Val(o) == o[1]

Has(d, k) == k \in DOMAIN d
Put(d, k, v) == (k :> v) @@ d
Get(d, k, dflt) == IF Has(d, k) THEN d[k] ELSE dflt
SetDefault(d, k, v) == IF Has(d, k) THEN d ELSE Put(d, k, v)
EmptyDict == <<>>

Max2(a, b) == IF a >= b THEN a ELSE b
Min2(a, b) == IF a <= b THEN a ELSE b

RECURSIVE SumOver(_, _)
SumOver(d, ks) ==
    IF ks = {} THEN 0
    ELSE LET k == CHOOSE x \in ks : TRUE IN d[k] + SumOver(d, ks \ {k})

\* round(n / d * 10^k) for n >= 0, d > 0: the quotient rounded to nearest,
\* ties to even
RoundDiv(n, d) ==
    LET q == n \div d
        r == n % d
    IN  IF 2 * r < d THEN q
        ELSE IF 2 * r > d THEN q + 1
        ELSE IF q % 2 = 0 THEN q ELSE q + 1

(***************************************************************************)
(* Characters and strings.                                                 *)
(***************************************************************************)
UpperChars == <<"A","B","C","D","E","F","G","H","I","J","K","L","M",
                "N","O","P","Q","R","S","T","U","V","W","X","Y","Z">>
LowerChars == <<"a","b","c","d","e","f","g","h","i","j","k","l","m",
                "n","o","p","q","r","s","t","u","v","w","x","y","z">>

IsUpper(c) == \E i \in 1..26 : UpperChars[i] = c
IsLower(c) == \E i \in 1..26 : LowerChars[i] = c
IsAlpha(c) == IsUpper(c) \/ IsLower(c)
LowerChar(c) ==
    IF IsUpper(c) THEN LowerChars[CHOOSE i \in 1..26 : UpperChars[i] = c]
    ELSE c
StrLower(s) == [i \in 1..Len(s) |-> LowerChar(s[i])]

RECURSIVE LStrip(_, _)
LStrip(s, chars) ==
    IF s # <<>> /\ s[1] \in chars THEN LStrip(Tail(s), chars) ELSE s
RECURSIVE RStrip(_, _)
RStrip(s, chars) ==
    IF s # <<>> /\ s[Len(s)] \in chars
    THEN RStrip(SubSeq(s, 1, Len(s) - 1), chars) ELSE s
\* str.strip(chars): removes from both ends every character in the set chars
StrStrip(s, chars) == RStrip(LStrip(s, chars), chars)

RECURSIVE Join(_)
Join(parts) == IF parts = <<>> THEN <<>> ELSE Head(parts) \o Join(Tail(parts))

(***************************************************************************)
(* Keys delivered by the keyboard hook.                                    *)
(***************************************************************************)
\* a key object: char is KeyCode.char ("" when the key has none) and str is
\* str(key)
KeyCode(c) == [kind |-> "KeyCode", char |-> <<c>>, str |-> <<"'", c, "'">>]
KeyCodeVk == [kind |-> "KeyCode", char |-> <<>>, str |-> <<"<","6","5",">">>]
Key(name) == [kind |-> "Key", char |-> <<>>, str |-> <<"K","e","y",".">> \o name]
Key_space == Key(<<"s","p","a","c","e">>)
Key_enter == Key(<<"e","n","t","e","r">>)
Key_tab   == Key(<<"t","a","b">>)
Key_shift == Key(<<"s","h","i","f","t">>)

Delimiters == { <<"s","p","a","c","e">>, <<"e","n","t","e","r">>, <<"t","a","b">> }

StripChars == {"K", "e", "y", "."}

_normalize_key(key) ==
    IF key.kind = "KeyCode" /\ key.char # <<>> THEN key.char
    ELSE StrLower(StrStrip(key.str, StripChars))

\* <<category, is_letter>>
_categorize(key) ==
    IF key.kind = "KeyCode" /\ key.char # <<>>
    THEN IF IsAlpha(key.char[1]) THEN <<"letter", TRUE>> ELSE <<"letter", FALSE>>
    ELSE <<"action", FALSE>>

(***************************************************************************)
(* Program constants.                                                      *)
(***************************************************************************)
MinRageIntervalMs == 450
RageStreakMin == 4
LongPauseMs == 2000
DayMs == 86400000

\* timestamp[:10]
DateLabel(ts) == ts \div DayMs

(***************************************************************************)
(* The summary document.                                                   *)
(***************************************************************************)
DeviceMeta == [platform |-> "Linux", machine |-> "x86_64", processor |-> "x86_64"]
_capture_device_meta == DeviceMeta

ZeroStats == [count |-> 0, total_ms |-> 0, max_ms |-> 0, min_ms |-> None]
ZeroWordStats == [count |-> 0, total_ms |-> 0, fastest_ms |-> None, slowest_ms |-> 0]
ZeroProfile == [avg_interval |-> 0, avg_press_length |-> 0, wpm |-> 0,
                avg_word_shape_samples |-> 0, long_pause_rate |-> 0]
ZeroAccuracy == [score |-> 0, correct |-> 0, incorrect |-> 0]

\* the fields _ensure_schema fills in
SchemaDefaults ==
    [daily_rage |-> EmptyDict, daily_word_counts |-> EmptyDict,
     key_pairs |-> EmptyDict, key_press_lengths |-> EmptyDict,
     interval_stats |-> ZeroStats, word_durations |-> EmptyDict,
     word_shapes |-> EmptyDict, typing_profile |-> ZeroProfile,
     word_accuracy |-> ZeroAccuracy]

\* the document _load_existing_summary builds when there is none to read
FreshSummary ==
    [total_events |-> 0, letters |-> 0, actions |-> 0, words |-> 0,
     rage_clicks |-> 0, long_pauses |-> 0, first_event |-> None,
     last_event |-> None, key_counts |-> EmptyDict,
     daily_activity |-> EmptyDict, daily_rage |-> EmptyDict,
     daily_word_counts |-> EmptyDict, key_pairs |-> EmptyDict,
     key_press_lengths |-> EmptyDict, interval_stats |-> ZeroStats,
     word_durations |-> EmptyDict, device_meta |-> _capture_device_meta,
     word_counts |-> EmptyDict, word_pairs |-> EmptyDict,
     word_shapes |-> EmptyDict, typing_profile |-> ZeroProfile,
     word_accuracy |-> ZeroAccuracy]

SummaryFields == DOMAIN FreshSummary

\* a file: absent, or holding a complete JSON document, or holding text that
\* is not a JSON document (empty or cut short)
NoFile == [exists |-> FALSE, valid |-> FALSE, doc |-> EmptyDict]
FileOf(doc) == [exists |-> TRUE, valid |-> TRUE, doc |-> doc]
PartialFile == [exists |-> TRUE, valid |-> FALSE, doc |-> EmptyDict]

\* json.dump then json.load of a summary: every value in it is a JSON value
\* (objects with string keys, numbers, null, strings, arrays), which the
\* round trip reproduces
JsonDump(doc) == FileOf(doc)

_load_existing_summary(file) ==
    IF ~file.exists THEN FreshSummary
    ELSE IF file.valid THEN file.doc
    ELSE FreshSummary

RECURSIVE SetDefaults(_, _, _)
SetDefaults(d, defaults, ks) ==
    IF ks = {} THEN d
    ELSE LET k == CHOOSE x \in ks : TRUE
         IN  SetDefaults(SetDefault(d, k, defaults[k]), defaults, ks \ {k})

\* the fields assigned instead of set by default
_ensure_schema_Overwrite(s) ==
    Put(SchemaDefaults @@ s, "device_meta", _capture_device_meta)
_ensure_schema(s) ==
    Put(SetDefaults(s, SchemaDefaults, DOMAIN SchemaDefaults),
        "device_meta", _capture_device_meta)

(***************************************************************************)
(* The word checker.                                                       *)
(***************************************************************************)
\* the words of DEFAULT_WORD_SET spelled with the letters of the model
Fallback ==
    { <<"a">>, <<"a","t">>, <<"h","e">>, <<"h","e","r">>, <<"t","h","a","t">>,
      <<"t","h","e">>, <<"t","h","e","r","e">>, <<"t","h","e","y">>,
      <<"y","e","a","r">> }

\* str.strip() without argument removes whitespace; a word made of the
\* characters of the buffer has none
WhiteSpace == {" "}

is_correct(word) ==
    LET normalized == StrStrip(StrLower(word), WhiteSpace)
    IN  IF Len(normalized) < min_length THEN FALSE
        ELSE IF normalized \in Fallback THEN TRUE
        ELSE IF normalized \in zipf_ok THEN TRUE
        ELSE normalized \in Fallback

\* some words of HEBREW_FALLBACK; a Hebrew letter is written by its name
HEBREW_FALLBACK ==
    { <<"alef","nun","yod">>, <<"mem","yod">>, <<"shin","yod","resh">> }

En == <<"e","n">>
He == <<"h","e">>
LANGUAGE_FALLBACK_WORDS == (En :> Fallback) @@ (He :> HEBREW_FALLBACK)

\* frequencies and the threshold are in tenths
DefaultThreshold == 25

\* WordChecker.__init__; an optional argument is None or Some(value)
WordChecker(threshold, min_len, extra_words, fallback_words, languages) ==
    LET extra == { StrLower(w) : w \in (IF extra_words = None THEN {}
                                        ELSE Val(extra_words)) }
        given == IF languages = None \/ Val(languages) = <<>>
                 THEN <<En>> ELSE Val(languages)
        langs == [i \in 1..Len(given) |-> StrLower(given[i])]
        supplied == IF fallback_words = None THEN {} ELSE Val(fallback_words)
    IN  [threshold |-> threshold,
         min_length |-> min_len,
         extra_words |-> extra,
         languages |-> langs,
         fallback |-> supplied \cup extra
                        \cup UNION { Get(LANGUAGE_FALLBACK_WORDS, langs[i], {})
                                     : i \in 1..Len(langs) }]

\* the module attribute zipf_frequency: None without wordfreq, otherwise a
\* table of frequencies (0 for a pair it does not list) and the languages it
\* has data for; for another language the call raises ValueError
_zipf_frequency(oracle, word, lang) ==
    IF oracle = None THEN None
    ELSE IF lang \notin Val(oracle).langs THEN None
    ELSE Some(Get(Val(oracle).freq, <<word, lang>>, 0))

WordChecker_is_correct_FirstLanguage(self, oracle, word) ==
    LET normalized == StrStrip(StrLower(word), WhiteSpace)
        frequent ==
            \E i \in 1..1 :
                LET freq == _zipf_frequency(oracle, normalized, self.languages[i])
                IN  freq # None /\ Val(freq) >= self.threshold
    IN  IF Len(normalized) < self.min_length THEN FALSE
        ELSE IF normalized \in self.fallback THEN TRUE
        ELSE IF frequent THEN TRUE
        ELSE normalized \in self.fallback

\* WordChecker.is_correct of any checker, with the oracle the module has
WordChecker_is_correct(self, oracle, word) ==
    LET normalized == StrStrip(StrLower(word), WhiteSpace)
        frequent ==
            \E i \in 1..Len(self.languages) :
                LET freq == _zipf_frequency(oracle, normalized, self.languages[i])
                IN  freq # None /\ Val(freq) >= self.threshold
    IN  IF Len(normalized) < self.min_length THEN FALSE
        ELSE IF normalized \in self.fallback THEN TRUE
        ELSE IF frequent THEN TRUE
        ELSE normalized \in self.fallback

\* the checker the logger constructs with the default configuration, no wordfreq
DefaultChecker ==
    [args |-> [threshold |-> DefaultThreshold, min_length |-> 1,
               extra_words |-> Some({}), fallback_words |-> None,
               languages |-> None],
     self |-> WordChecker(DefaultThreshold, 1, Some({}), None, None),
     zipf_frequency |-> None]

(***************************************************************************)
(* The statements of the handlers.  A handler body is a chain of steps     *)
(* over a context c: the summary (c.s), the attributes of the logger the   *)
(* chain assigns, and the exception raised so far (c.err): a step after an *)
(* exception does nothing, as the handler has been left.                   *)
(***************************************************************************)
Ctx == [s |-> summary, err |-> "none", llk |-> last_logged_key,
        cdl |-> current_day_label, pw |-> previous_word, wb |-> word_buffer,
        ws |-> word_start, wl |-> word_last,
        cwle |-> current_word_letter_events]

Ok(c) == c.err = "none"
Raise(c, e) == [c EXCEPT !.err = e]

\* self.summary[field] += 1
Bump(c, field) ==
    IF ~Ok(c) THEN c
    ELSE IF ~Has(c.s, field) THEN Raise(c, "KeyError")
    ELSE [c EXCEPT !.s = Put(c.s, field, c.s[field] + 1)]

\* d.setdefault(k, 0); d[k] += 1
Incr(d, k) == Put(d, k, Get(d, k, 0) + 1)

\* self.summary[field].setdefault(k, 0); self.summary[field][k] += 1
BumpIn(c, field, k) ==
    IF ~Ok(c) THEN c
    ELSE IF ~Has(c.s, field) THEN Raise(c, "KeyError")
    ELSE [c EXCEPT !.s = Put(c.s, field, Incr(c.s[field], k))]

\* d.setdefault(a, {}).setdefault(b, 0); d[a][b] += 1
IncrPair(d, a, b) == Put(d, a, Incr(Get(d, a, EmptyDict), b))

\* the running (count, total, max, min) accumulator
UpdateStats(st, ms) ==
    [count |-> st.count + 1,
     total_ms |-> st.total_ms + ms,
     max_ms |-> Max2(st.max_ms, ms),
     min_ms |-> IF IsNone(st.min_ms) \/ ms < Val(st.min_ms)
                THEN Some(ms) ELSE st.min_ms]

\* the pair is counted and the pointer stays on the first event
_record_transition_NoAdvance(c, key) ==
    IF ~Ok(c) THEN c
    ELSE LET s1 == IF c.llk # None /\ Val(c.llk) # <<>>
                   THEN Put(c.s, "key_pairs",
                            IncrPair(Get(c.s, "key_pairs", EmptyDict), Val(c.llk), key))
                   ELSE c.s
         IN  [c EXCEPT !.s = s1, !.llk = IF @ = None THEN Some(key) ELSE @]
_record_transition(c, key) ==
    IF ~Ok(c) THEN c
    ELSE LET s1 == IF c.llk # None /\ Val(c.llk) # <<>>
                   THEN Put(c.s, "key_pairs",
                            IncrPair(Get(c.s, "key_pairs", EmptyDict), Val(c.llk), key))
                   ELSE c.s
         IN  [c EXCEPT !.s = s1, !.llk = Some(key)]

_record_interval(c, interval_ms) ==
    IF ~Ok(c) \/ interval_ms <= 0 THEN c
    ELSE [c EXCEPT !.s = Put(c.s, "interval_stats",
                             UpdateStats(Get(c.s, "interval_stats", ZeroStats), interval_ms))]

_record_duration(c, key, duration_ms) ==
    IF ~Ok(c) \/ IsNone(duration_ms) THEN c
    ELSE LET lengths == Get(c.s, "key_press_lengths", EmptyDict)
             key_stats == Get(lengths, key, ZeroStats)
         IN  [c EXCEPT !.s = Put(c.s, "key_press_lengths",
                                 Put(lengths, key, UpdateStats(key_stats, Val(duration_ms))))]

RECURSIVE SumField(_, _, _)
SumField(d, ks, f) ==
    IF ks = {} THEN 0
    ELSE LET k == CHOOSE x \in ks : TRUE IN d[k][f] + SumField(d, ks \ {k}, f)

RECURSIVE SumLen(_, _)
SumLen(d, ks) ==
    IF ks = {} THEN 0
    ELSE LET k == CHOOSE x \in ks : TRUE IN Len(d[k]) + SumLen(d, ks \ {k})

\* the typing_profile of a summary with total_events # 0
Profile(s) ==
    LET interval_stats == Get(s, "interval_stats", ZeroStats)
        count == interval_stats.count
        total == interval_stats.total_ms
        key_lengths == Get(s, "key_press_lengths", EmptyDict)
        total_press_ms == SumField(key_lengths, DOMAIN key_lengths, "total_ms")
        total_press_count == SumField(key_lengths, DOMAIN key_lengths, "count")
        word_shapes == Get(s, "word_shapes", EmptyDict)
    IN  [avg_interval |-> IF count # 0 THEN RoundDiv(10 * total, count) ELSE 0,
         avg_press_length |-> IF total_press_count # 0
                              THEN RoundDiv(10 * total_press_ms, total_press_count)
                              ELSE 0,
         wpm |-> IF count # 0 /\ total # 0
                 THEN RoundDiv(600000 * count, total) ELSE 0,
         avg_word_shape_samples |-> SumLen(word_shapes, DOMAIN word_shapes),
         long_pause_rate |-> RoundDiv(1000 * Get(s, "long_pauses", 0),
                                      Get(s, "total_events", 1))]

_refresh_typing_profile(c) ==
    IF ~Ok(c) THEN c
    ELSE IF Get(c.s, "total_events", 1) = 0 THEN Raise(c, "ZeroDivisionError")
    ELSE [c EXCEPT !.s = Put(c.s, "typing_profile", Profile(c.s))]

\* first_event is never set
SetEventTimes_LastOnly(c, ts) ==
    IF ~Ok(c) THEN c ELSE [c EXCEPT !.s = Put(c.s, "last_event", Some(ts))]
\* self.summary["last_event"] = ts; first_event is set when it is None
SetEventTimes(c, ts) ==
    IF ~Ok(c) THEN c
    ELSE LET s1 == Put(c.s, "last_event", Some(ts))
         IN  IF ~Has(s1, "first_event") THEN [Raise(c, "KeyError") EXCEPT !.s = s1]
             ELSE IF IsNone(s1["first_event"])
                  THEN [c EXCEPT !.s = Put(s1, "first_event", Some(ts))]
                  ELSE [c EXCEPT !.s = s1]

SetDayLabel(c, label) == IF ~Ok(c) THEN c ELSE [c EXCEPT !.cdl = Some(label)]

\* _update_summary up to the call of _persist_summary
_update_summary_NoDailyRage(c0, event) ==
    LET date_label == DateLabel(event.timestamp)
        c1 == Bump(c0, "total_events")
        c2 == BumpIn(c1, "key_counts", event.key)
        c3 == _record_transition(c2, event.key)
        c4 == _record_interval(c3, event.interval_ms)
        c5 == _record_duration(c4, event.key, event.duration_ms)
        c6 == IF event.category = "letter" THEN Bump(c5, "letters")
              ELSE Bump(c5, "actions")
        c7 == IF "rage_click" \in event.behaviors
              THEN Bump(c6, "rage_clicks")
              ELSE c6
        c8 == IF "long_pause" \in event.behaviors
              THEN Bump(c7, "long_pauses") ELSE c7
        c9 == SetDayLabel(BumpIn(c8, "daily_activity", date_label), date_label)
        c10 == SetEventTimes(c9, event.timestamp)
    IN  _refresh_typing_profile(c10)
_update_summary(c0, event) ==
    LET date_label == DateLabel(event.timestamp)
        c1 == Bump(c0, "total_events")
        c2 == BumpIn(c1, "key_counts", event.key)
        c3 == _record_transition(c2, event.key)
        c4 == _record_interval(c3, event.interval_ms)
        c5 == _record_duration(c4, event.key, event.duration_ms)
        c6 == IF event.category = "letter" THEN Bump(c5, "letters")
              ELSE Bump(c5, "actions")
        c7 == IF "rage_click" \in event.behaviors
              THEN BumpIn(Bump(c6, "rage_clicks"), "daily_rage", date_label)
              ELSE c6
        c8 == IF "long_pause" \in event.behaviors
              THEN Bump(c7, "long_pauses") ELSE c7
        c9 == SetDayLabel(BumpIn(c8, "daily_activity", date_label), date_label)
        c10 == SetEventTimes(c9, event.timestamp)
    IN  _refresh_typing_profile(c10)

(***************************************************************************)
(* Word accuracy and word finalization.                                    *)
(***************************************************************************)
Clamp_NoCeiling(score) == Max2(0, score)
Clamp(score) == Max2(0, Min2(score, accuracy_target))

_score_word(c, word) ==
    IF ~Ok(c) THEN c
    ELSE LET accuracy == Get(c.s, "word_accuracy", ZeroAccuracy)
             key == IF is_correct(word) THEN "correct" ELSE "incorrect"
             points == accuracy_points[key]
             counted == [accuracy EXCEPT ![key] = @ + 1]
             scored == [counted EXCEPT !.score = Clamp(accuracy.score + points)]
         IN  [c EXCEPT !.s = Put(c.s, "word_accuracy", scored)]

UpdateWordStats(st, ms) ==
    [count |-> st.count + 1,
     total_ms |-> st.total_ms + ms,
     slowest_ms |-> Max2(st.slowest_ms, ms),
     fastest_ms |-> IF IsNone(st.fastest_ms) \/ ms < Val(st.fastest_ms)
                    THEN Some(ms) ELSE st.fastest_ms]

_record_word_shape(c, word) ==
    IF ~Ok(c) \/ c.cwle = <<>> THEN c
    ELSE LET shapes == Get(c.s, "word_shapes", EmptyDict)
             entry == [durations |-> [i \in 1..Len(c.cwle) |-> c.cwle[i].duration_ms],
                       intervals |-> [i \in 1..Len(c.cwle) |-> c.cwle[i].interval_ms]]
         IN  [c EXCEPT !.s = Put(c.s, "word_shapes",
                                 Put(shapes, word, Append(Get(shapes, word, <<>>), entry)))]

\* words and word_counts, then word_pairs from previous_word
CountWord(c, word) ==
    IF word = <<>> THEN c
    ELSE LET c1 == BumpIn(Bump(c, "words"), "word_counts", word)
         IN  IF ~Ok(c1) \/ c1.pw = None \/ Val(c1.pw) = <<>> THEN c1
             ELSE IF ~Has(c1.s, "word_pairs") THEN Raise(c1, "KeyError")
             ELSE [c1 EXCEPT !.s = Put(c1.s, "word_pairs",
                                       IncrPair(c1.s["word_pairs"], Val(c1.pw), word))]

SetPreviousWord(c, word) == IF ~Ok(c) THEN c ELSE [c EXCEPT !.pw = Some(word)]

CountDayWord(c, label, word) ==
    IF ~Ok(c) \/ label = None THEN c
    ELSE IF ~Has(c.s, "daily_word_counts") THEN Raise(c, "KeyError")
    ELSE [c EXCEPT !.s = Put(c.s, "daily_word_counts",
                             IncrPair(c.s["daily_word_counts"], Val(label), word))]

\* a word typed within one millisecond taken as having no duration
RecordWordTime_ZeroSkipped(c, word) ==
    IF ~Ok(c) \/ c.ws = None \/ c.wl = None \/ Val(c.wl) = Val(c.ws) THEN c
    ELSE LET duration == Val(c.wl) - Val(c.ws)
             word_times == Get(c.s, "word_durations", EmptyDict)
             stats == Get(word_times, word, ZeroWordStats)
             c1 == [c EXCEPT !.s = Put(c.s, "word_durations",
                                       Put(word_times, word, UpdateWordStats(stats, duration)))]
         IN  _record_word_shape(c1, word)
RecordWordTime(c, word) ==
    IF ~Ok(c) \/ c.ws = None \/ c.wl = None THEN c
    ELSE LET duration == Val(c.wl) - Val(c.ws)
             word_times == Get(c.s, "word_durations", EmptyDict)
             stats == Get(word_times, word, ZeroWordStats)
             c1 == [c EXCEPT !.s = Put(c.s, "word_durations",
                                       Put(word_times, word, UpdateWordStats(stats, duration)))]
         IN  _record_word_shape(c1, word)

\* if score_word: self._score_word(word)
ScoreIfAsked_Always(c, word, score_word) == _score_word(c, word)
ScoreIfAsked(c, word, score_word) ==
    IF score_word THEN _score_word(c, word) ELSE c

\* if reset_sequence: self.previous_word = None
ChainAfter_Kept(pw, reset_sequence) == pw
ChainAfter(pw, reset_sequence) == IF reset_sequence THEN None ELSE pw

_finish_word(c, day_label, reset_sequence, score_word) ==
    LET label0 == IF day_label # None THEN day_label ELSE c.cdl
        last_event == Get(c.s, "last_event", None)
        label == IF label0 = None /\ last_event # None
                 THEN Some(DateLabel(Val(last_event))) ELSE label0
        word == Join(c.wb)
        c1 == IF c.wb = <<>> THEN c
              ELSE LET a1 == CountWord(c, word)
                       a2 == SetPreviousWord(a1, word)
                       a3 == CountDayWord(a2, label, word)
                       a4 == ScoreIfAsked(a3, word, score_word)
                   IN  RecordWordTime(a4, word)
    IN  IF ~Ok(c1) THEN c1
        ELSE [c1 EXCEPT !.wb = <<>>, !.ws = None, !.wl = None, !.cwle = <<>>,
                        !.pw = ChainAfter(@, reset_sequence)]

(***************************************************************************)
(* pending_keys: a dict in insertion order, keyed by the key object.       *)
(***************************************************************************)
PendingIndex(key) ==
    IF \E i \in 1..Len(pending_keys) : pending_keys[i].key = key
    THEN CHOOSE i \in 1..Len(pending_keys) : pending_keys[i].key = key
    ELSE 0

\* self.pending_keys[key] = {...}
PendingPut(key, event, press_time) ==
    LET rec == [key |-> key, event |-> event, press_time |-> press_time]
        i == PendingIndex(key)
    IN  IF i = 0 THEN Append(pending_keys, rec)
        ELSE [pending_keys EXCEPT ![i] = rec]

\* what self.pending_keys.pop(key, None) leaves
PendingPop(key) ==
    LET i == PendingIndex(key)
    IN  SubSeq(pending_keys, 1, i - 1) \o SubSeq(pending_keys, i + 1, Len(pending_keys))

(***************************************************************************)
(* The handlers.                                                           *)
(***************************************************************************)
\* the assignments of a handler chain to the logger
Commit(c) ==
    /\ summary' = c.s
    /\ last_logged_key' = c.llk
    /\ current_day_label' = c.cdl
    /\ previous_word' = c.pw
    /\ word_buffer' = c.wb
    /\ word_start' = c.ws
    /\ word_last' = c.wl
    /\ current_word_letter_events' = c.cwle

Config == <<accuracy_points, accuracy_target, min_length, zipf_ok>>
Speed == <<speed_config, session, speed_points>>
Widget == <<progress, widget_settings, widget_call>>
Insight == <<insight_mode, llm_env, insight_pc, insight_frame, insight_ret, feed,
             gpt_state, insight_out, insight_meta>>
Checker == <<word_checker, checked>>
Main == <<health, main_pc, listener_error, propagated>>
Side == <<Checker, Main>>
Scripts == <<injected, returned, debug_log, resets, snapshot, Widget, Insight, Side>>
Files == <<disk, tmp>>

IntervalAt(t) == IF last_press_time # None THEN t - Val(last_press_time) ELSE 0

StreakAt(normalized, interval_ms) ==
    IF last_key = Some(normalized) /\ interval_ms # 0
       /\ interval_ms < MinRageIntervalMs
    THEN rage_streak + 1 ELSE 1

BehaviorsAt_EdgeTriggered(streak, interval_ms) ==
    (IF streak = RageStreakMin THEN {"rage_click"} ELSE {})
        \cup (IF interval_ms > LongPauseMs THEN {"long_pause"} ELSE {})
BehaviorsAt(streak, interval_ms) ==
    (IF streak >= RageStreakMin THEN {"rage_click"} ELSE {})
        \cup (IF interval_ms > LongPauseMs THEN {"long_pause"} ELSE {})

\* on_press from the long-pause test to the end of the buffer update
PressWord(c0, normalized, is_letter, t, interval_ms) ==
    LET date_label == Some(DateLabel(t))
        c1 == IF interval_ms > LongPauseMs
              THEN _finish_word(c0, date_label, TRUE, FALSE) ELSE c0
    IN  IF ~Ok(c1) THEN c1
        ELSE IF is_letter
        THEN [c1 EXCEPT !.wb = Append(@, StrLower(normalized)),
                        !.ws = IF @ = None THEN Some(t) ELSE @,
                        !.wl = Some(t)]
        ELSE IF normalized \in Delimiters
        THEN _finish_word(c1, date_label, FALSE, TRUE)
        ELSE c1

\* on_press(key), d ms after the previous event
on_press(key, d) ==
    /\ pc = "idle"
    /\ LET t == now + d
           interval_ms == IntervalAt(t)
           normalized == _normalize_key(key)
           cat == _categorize(key)
           streak == StreakAt(normalized, interval_ms)
           behaviors == BehaviorsAt(streak, interval_ms)
           c == PressWord(Ctx, normalized, cat[2], t, interval_ms)
           event == [timestamp |-> t, key |-> normalized, category |-> cat[1],
                     interval_ms |-> interval_ms, behaviors |-> behaviors,
                     duration_ms |-> None]
       IN  /\ now' = t
           /\ rage_streak' = streak
           /\ Commit(c)
           /\ raised' = c.err
           /\ IF Ok(c)
              THEN /\ pending_keys' = PendingPut(key, event, t)
                   /\ last_press_time' = Some(t)
                   /\ last_key' = Some(normalized)
                   /\ pc' = "idle"
              ELSE /\ UNCHANGED <<pending_keys, last_press_time, last_key>>
                   /\ pc' = "failed"
    /\ press_log' = Append(press_log, <<_normalize_key(key), IntervalAt(now + d)>>)
    /\ presses' = presses + 1
    /\ UNCHANGED <<ret, log_open, log_lines, Files, Config, Speed, Scripts, loaded, runs>>

\* on_release of a pending key up to the call of _persist_summary: the
\* context after it
ReleaseCtx(key, t) ==
    LET record == pending_keys[PendingIndex(key)]
        duration_ms == t - record.press_time
        event == [record.event EXCEPT !.duration_ms = Some(duration_ms)]
        c0 == IF event.category = "letter"
              THEN [Ctx EXCEPT !.cwle = Append(@, [key |-> event.key,
                                                   duration_ms |-> duration_ms,
                                                   interval_ms |-> event.interval_ms])]
              ELSE Ctx
    IN  _update_summary(c0, event)

\* the body of on_release(key) for a pending key; after it the handler is
\* at _persist_summary and returns to back, or has raised and is at fail
Release_Unlogged(key, d, back, fail) ==
    LET t == now + d
        c == ReleaseCtx(key, t)
    IN  /\ now' = t
        /\ pending_keys' = PendingPop(key)
        /\ log_lines' = log_lines
        /\ Commit(c)
        /\ raised' = c.err
        /\ IF Ok(c) THEN pc' = "persist_open" /\ ret' = back
           ELSE pc' = fail /\ ret' = ret
        /\ UNCHANGED <<last_press_time, last_key, rage_streak, log_open, Files,
                       Config, Speed, Scripts, loaded, press_log, presses, runs>>
Release(key, d, back, fail) ==
    LET t == now + d
        c == ReleaseCtx(key, t)
    IN  /\ now' = t
        /\ pending_keys' = PendingPop(key)
        /\ log_lines' = log_lines + 1
        /\ Commit(c)
        /\ raised' = c.err
        /\ IF Ok(c) THEN pc' = "persist_open" /\ ret' = back
           ELSE pc' = fail /\ ret' = ret
        /\ UNCHANGED <<last_press_time, last_key, rage_streak, log_open, Files,
                       Config, Speed, Scripts, loaded, press_log, presses, runs>>

on_release(key, d) ==
    /\ pc = "idle"
    /\ PendingIndex(key) # 0
    /\ Release(key, d, "idle", "failed")

(***************************************************************************)
(* _persist_summary: write the temporary file, fsync it, rename it.        *)
(***************************************************************************)
InMemory == <<summary, last_press_time, last_key, last_logged_key, rage_streak,
              word_buffer, previous_word, current_day_label, word_start,
              word_last, pending_keys, current_word_letter_events, log_open,
              log_lines, press_log>>

PersistOpen ==
    /\ pc = "persist_open"
    /\ tmp' = PartialFile
    /\ pc' = "persist_sync"
    /\ UNCHANGED <<now, ret, raised, InMemory, disk, Config, Speed, Scripts, loaded, presses, runs>>

PersistSync ==
    /\ pc = "persist_sync"
    /\ tmp' = JsonDump(summary)
    /\ pc' = "persist_replace"
    /\ UNCHANGED <<now, ret, raised, InMemory, disk, Config, Speed, Scripts, loaded, presses, runs>>

PersistReplace ==
    /\ pc = "persist_replace"
    /\ disk' = tmp
    /\ tmp' = NoFile
    /\ pc' = ret
    /\ UNCHANGED <<now, ret, raised, InMemory, Config, Speed, Scripts, loaded, presses, runs>>

(***************************************************************************)
(* stop().                                                                 *)
(***************************************************************************)
\* main() calls stop() when the listener ends, also after a handler raised
StopBegin ==
    /\ pc \in {"idle", "failed"}
    /\ pc' = "stop_flush"
    /\ raised' = "none"
    /\ UNCHANGED <<now, ret, InMemory, Files, Config, Speed, Scripts, loaded, presses, runs>>

\* _flush_pending_keys: on_release of the next pending key
StopFlush(d) ==
    /\ pc = "stop_flush"
    /\ pending_keys # <<>>
    /\ Release(pending_keys[1].key, d, "stop_flush", "aborted")

\* stop() after the flush, up to closing the log file
StopFinish ==
    /\ pc = "stop_flush"
    /\ pending_keys = <<>>
    /\ LET c == _refresh_typing_profile(
                    _finish_word(Ctx, current_day_label, FALSE, FALSE))
       IN  /\ Commit(c)
           /\ raised' = c.err
           /\ IF Ok(c) THEN log_open' = FALSE /\ pc' = "stop_open"
              ELSE log_open' = log_open /\ pc' = "aborted"
    /\ UNCHANGED <<now, ret, last_press_time, last_key, rage_streak,
                   pending_keys, log_lines, Files, Config, Speed, Scripts, loaded, press_log,
                   presses, runs>>

\* open(self.summary_path, "w") truncates the file
StopOpen ==
    /\ pc = "stop_open"
    /\ disk' = PartialFile
    /\ pc' = "stop_dump"
    /\ UNCHANGED <<now, ret, raised, InMemory, tmp, Config, Speed, Scripts, loaded, presses, runs>>

\* json.dump and the close of the file
StopDump ==
    /\ pc = "stop_dump"
    /\ disk' = JsonDump(summary)
    /\ pc' = "stopped"
    /\ UNCHANGED <<now, ret, raised, InMemory, tmp, Config, Speed, Scripts, loaded, presses, runs>>

(***************************************************************************)
(* Construction.                                                           *)
(***************************************************************************)
\* the attributes WrappedLogger.__init__ sets, reading the summary from file
__init__(file) ==
    [summary |-> _ensure_schema(_load_existing_summary(file)),
     last_press_time |-> None, last_key |-> None, last_logged_key |-> None,
     rage_streak |-> 0, word_buffer |-> <<>>, previous_word |-> None,
     current_day_label |-> None, word_start |-> None, word_last |-> None,
     pending_keys |-> <<>>, current_word_letter_events |-> <<>>,
     log_open |-> TRUE]

\* the process ends (it returned from main, or was killed) and a new logger
\* process is started on the same files
Restart ==
    /\ LET self == __init__(disk)
       IN  /\ summary' = self.summary
           /\ last_press_time' = self.last_press_time
           /\ last_key' = self.last_key
           /\ last_logged_key' = self.last_logged_key
           /\ rage_streak' = self.rage_streak
           /\ word_buffer' = self.word_buffer
           /\ previous_word' = self.previous_word
           /\ current_day_label' = self.current_day_label
           /\ word_start' = self.word_start
           /\ word_last' = self.word_last
           /\ pending_keys' = self.pending_keys
           /\ current_word_letter_events' = self.current_word_letter_events
           /\ log_open' = self.log_open
    /\ loaded' = disk
    /\ log_lines' = 0
    /\ press_log' = <<>>
    /\ pc' = "idle"
    /\ ret' = "idle"
    /\ raised' = "none"
    /\ runs' = runs + 1
    /\ UNCHANGED <<now, Files, Config, Speed, Scripts, presses>>

(***************************************************************************)
(* The speed session tracker: _track_session_interval,                     *)
(* _score_session_word and _commit_speed_session of the logger, as the     *)
(* specification (section 4.4) and the tests of the tracker describe them. *)
(* A quotient (average interval, accuracy percentage) is kept exact, as a  *)
(* fraction in lowest terms.                                               *)
(***************************************************************************)
RECURSIVE Gcd(_, _)
Gcd(a, b) == IF b = 0 THEN a ELSE Gcd(b, a % b)
Ratio(n, d) == LET g == Gcd(n, d) IN [num |-> n \div g, den |-> d \div g]
Whole(n) == [num |-> n, den |-> 1]

ZeroSession ==
    [interval_total |-> 0, interval_count |-> 0, words_correct |-> 0, words_total |-> 0]
ZeroSpeedPoints(cfg) ==
    [earned |-> 0, sessions |-> 0, last_avg_interval |-> Whole(0),
     last_accuracy_pct |-> Whole(0), target_sessions |-> cfg.target_sessions]

\* an interval qualifies when it is below baseline x pct / 100
FastInterval(cfg, total, count) ==
    100 * total < cfg.baseline_interval_ms * cfg.interval_pct_threshold * count

SessionAverage(ses) ==
    IF ses.interval_count = 0 THEN Whole(0)
    ELSE Ratio(ses.interval_total, ses.interval_count)

\* correct / total scored words, in percent; empty_pct is the value for a
\* session without scored words, which the specification leaves open
SessionAccuracy(ses, empty_pct) ==
    IF ses.words_total = 0 THEN Whole(empty_pct)
    ELSE Ratio(100 * ses.words_correct, ses.words_total)

\* the award is gated by the average interval only
Qualifies_NoAccuracy(cfg, ses, empty_pct) ==
    /\ ses.interval_count > 0
    /\ FastInterval(cfg, ses.interval_total, ses.interval_count)
Qualifies(cfg, ses, empty_pct) ==
    LET acc == SessionAccuracy(ses, empty_pct)
    IN  /\ ses.interval_count > 0
        /\ FastInterval(cfg, ses.interval_total, ses.interval_count)
        /\ acc.num >= cfg.accuracy_pct_threshold * acc.den

\* the session accumulators are left as they are
SessionAfterCommit_Kept(ses) == ses
SessionAfterCommit(ses) == ZeroSession

\* <<speed_points, session>> after the commit of ses
_commit_speed_session(cfg, points, ses, empty_pct) ==
    << [points EXCEPT
          !.sessions = @ + 1,
          !.earned = IF Qualifies(cfg, ses, empty_pct) THEN @ + 1 ELSE @,
          !.last_avg_interval = SessionAverage(ses),
          !.last_accuracy_pct = SessionAccuracy(ses, empty_pct)],
       SessionAfterCommit(ses) >>

Logger == <<now, pc, ret, raised, InMemory, Files, Config, loaded, presses, runs>>
EmptyPcts == {0, 100}

CommitSpeedSession ==
    /\ \E empty_pct \in EmptyPcts :
          LET r == _commit_speed_session(speed_config, speed_points, session, empty_pct)
          IN  speed_points' = r[1] /\ session' = r[2]
    /\ UNCHANGED <<Logger, speed_config, Scripts>>

\* an interval above session_interval_gap_ms ends the session; a fast one
\* is accumulated; for the intervals in between the specification allows
\* both to ignore the interval and to end the session
TrackSessionInterval(interval_ms) ==
    /\ IF interval_ms > speed_config.session_interval_gap_ms
       THEN CommitSpeedSession
       ELSE IF FastInterval(speed_config, interval_ms, 1)
       THEN /\ session' = [session EXCEPT !.interval_total = @ + interval_ms,
                                           !.interval_count = @ + 1]
            /\ UNCHANGED <<Logger, speed_config, speed_points, Scripts>>
       ELSE \/ UNCHANGED vars
            \/ CommitSpeedSession

ScoreSessionWord(is_correct_word) ==
    /\ session' = [session EXCEPT !.words_total = @ + 1,
                                  !.words_correct = IF is_correct_word THEN @ + 1 ELSE @]
    /\ UNCHANGED <<Logger, speed_config, speed_points, Scripts>>

DefaultSpeedConfig ==
    [baseline_interval_ms |-> 320, interval_pct_threshold |-> 90,
     accuracy_pct_threshold |-> 80, session_interval_gap_ms |-> 5000,
     target_sessions |-> 5]

InitSpeed(configs) ==
    /\ speed_config \in configs
    /\ session = ZeroSession
    /\ speed_points = ZeroSpeedPoints(speed_config)

\* load_widget_settings() on no configuration file: a ratio of 0.05 and an
\* average interval of 210 ms (in tenths)
DefaultWidgetSettings ==
    [sample_total_ratio |-> [num |-> 1, den |-> 20], sample_avg_interval |-> 2100]

InitScriptVars ==
    /\ injected = <<>>
    /\ returned = None
    /\ debug_log = <<>>
    /\ resets = 0
    /\ snapshot = None
InitWidgetVars(settings) ==
    /\ progress = None
    /\ widget_settings \in settings
    /\ widget_call = None
\* no insight operation has run: no feed, state, insight or meta file
InitInsightVars(modes, envs) ==
    /\ insight_mode \in modes
    /\ llm_env \in envs
    /\ insight_pc = "idle"
    /\ insight_frame = EmptyDict
    /\ insight_ret = None
    /\ feed = None
    /\ gpt_state = None
    /\ insight_out = None
    /\ insight_meta = None
Offline == [sdk |-> FALSE, api_key |-> FALSE]
\* no is_correct call was made
InitCheckerVars(checkers) ==
    /\ word_checker \in checkers
    /\ checked = None
\* main() has constructed the logger; there is no health document yet
InitMainVars ==
    /\ health = None
    /\ main_pc = "constructed"
    /\ listener_error = "none"
    /\ propagated = "none"
InitScripts ==
    /\ InitScriptVars
    /\ InitWidgetVars({DefaultWidgetSettings})
    /\ InitInsightVars({"real"}, {Offline})
    /\ InitCheckerVars({DefaultChecker})
    /\ InitMainVars

(***************************************************************************)
(* scripts/reset_summary.py.                                               *)
(***************************************************************************)
\* BASE_FIELDS: the dict literal names word_pairs twice and key_pairs not
\* at all
BASE_FIELDS ==
    [total_events |-> 0, letters |-> 0, actions |-> 0, words |-> 0,
     rage_clicks |-> 0, long_pauses |-> 0, daily_activity |-> EmptyDict,
     daily_rage |-> EmptyDict, daily_word_counts |-> EmptyDict,
     key_counts |-> EmptyDict, word_pairs |-> EmptyDict,
     word_shapes |-> EmptyDict, key_press_lengths |-> EmptyDict,
     word_durations |-> EmptyDict, device_meta |-> EmptyDict,
     word_counts |-> EmptyDict, first_event |-> None, last_event |-> None,
     typing_profile |-> ZeroProfile, word_accuracy |-> ZeroAccuracy,
     interval_stats |-> ZeroStats,
     speed_points |-> [earned |-> 0, sessions |-> 0, last_avg_interval |-> 0,
                       last_accuracy_pct |-> 0, target_sessions |-> 0]]

\* load_summary of the script: {} when there is no file
load_summary_reset(file) == IF file.exists THEN file.doc ELSE EmptyDict

\* the document reset_daily writes over the one it loaded
NewSummary(summary_doc) ==
    Put(BASE_FIELDS, "device_meta", Get(summary_doc, "device_meta", EmptyDict))

\* reset_daily(path), run while no logger is inside a write of the summary;
\* json.load raises on a file that is not a JSON document and nothing is
\* written then; atomic_write goes through the temporary file
reset_daily ==
    /\ pc \in {"idle", "failed", "aborted", "stopped"}
    /\ IF disk.exists /\ ~disk.valid
       THEN UNCHANGED Files
       ELSE /\ disk' = JsonDump(NewSummary(load_summary_reset(disk)))
            /\ tmp' = NoFile
    /\ resets' = resets + 1
    /\ UNCHANGED <<now, pc, ret, raised, InMemory, Config, loaded, presses, runs,
                   Speed, Side, injected, returned, debug_log, snapshot, Widget, Insight>>

(***************************************************************************)
(* scripts/mock_keystrokes.py.  The keys of inject_keys are one-character  *)
(* strings.                                                                *)
(***************************************************************************)
MockLongPauseMs == 800

\* _default_summary(): no word_accuracy, an empty device_meta
_default_summary ==
    [total_events |-> 0, letters |-> 0, actions |-> 0, words |-> 0,
     rage_clicks |-> 0, long_pauses |-> 0, first_event |-> None,
     last_event |-> None, key_counts |-> EmptyDict,
     daily_activity |-> EmptyDict, daily_rage |-> EmptyDict,
     daily_word_counts |-> EmptyDict, key_pairs |-> EmptyDict,
     key_press_lengths |-> EmptyDict, interval_stats |-> ZeroStats,
     word_durations |-> EmptyDict, device_meta |-> EmptyDict,
     word_counts |-> EmptyDict, word_pairs |-> EmptyDict,
     word_shapes |-> EmptyDict, typing_profile |-> ZeroProfile]

\* load_summary of the script, for no file or a file holding a document
load_summary_mock(file) ==
    IF ~file.exists THEN _default_summary
    ELSE LET merged == file.doc @@ _default_summary
             m1 == SetDefault(merged, "typing_profile", ZeroProfile)
             m2 == SetDefault(m1, "interval_stats", ZeroStats)
             m3 == SetDefault(m2, "key_pairs", EmptyDict)
         IN  SetDefault(m3, "key_press_lengths", EmptyDict)

\* the summary after record_event(summary, key, interval_ms, duration_ms,
\* timestamp, previous_key); key and previous_key are strings
record_event(s, key, interval_ms, duration_ms, timestamp, previous_key) ==
    LET s1 == Put(s, "total_events", Get(s, "total_events", 0) + 1)
        s2 == IF key # <<>> /\ IsAlpha(key[1])
              THEN Put(s1, "letters", Get(s1, "letters", 0) + 1)
              ELSE Put(s1, "actions", Get(s1, "actions", 0) + 1)
        s3 == IF interval_ms >= MockLongPauseMs
              THEN Put(s2, "long_pauses", Get(s2, "long_pauses", 0) + 1) ELSE s2
        s4 == Put(s3, "last_event", Some(timestamp))
        s5 == Put(s4, "first_event",
                  IF Get(s4, "first_event", None) \notin {None, Some(0)}
                  THEN s4["first_event"] ELSE Some(timestamp))
        s6 == Put(s5, "key_counts", Incr(s5["key_counts"], key))
        key_pairs == Get(s6, "key_pairs", EmptyDict)
        s7 == Put(s6, "key_pairs",
                  IF previous_key # None /\ Val(previous_key) # <<>>
                  THEN IncrPair(key_pairs, Val(previous_key), key) ELSE key_pairs)
        lengths0 == Get(s7, "key_press_lengths", EmptyDict)
        lengths == Put(lengths0, key,
                       UpdateStats(Get(lengths0, key, ZeroStats), duration_ms))
        s8 == Put(s7, "key_press_lengths", lengths)
        interval_stats == UpdateStats(Get(s8, "interval_stats", ZeroStats), interval_ms)
        s9 == Put(s8, "interval_stats", interval_stats)
        count == interval_stats.count
        total == interval_stats.total_ms
        total_length == SumField(lengths, DOMAIN lengths, "total_ms")
        total_count == SumField(lengths, DOMAIN lengths, "count")
        typing == [Get(s9, "typing_profile", EmptyDict) EXCEPT
                     !.avg_interval = IF count # 0 THEN RoundDiv(10 * total, count) ELSE 0,
                     !.avg_press_length = IF total_count # 0
                                          THEN RoundDiv(10 * total_length, total_count)
                                          ELSE 0,
                     !.wpm = IF count # 0 /\ total # 0
                             THEN RoundDiv(600000 * count, total) ELSE 0,
                     !.long_pause_rate = RoundDiv(1000 * Get(s9, "long_pauses", 0),
                                                  Max2(s9["total_events"], 1))]
    IN  Put(s9, "typing_profile", typing)

\* the loop of inject_keys over keys[i..]: the summary after it
RECURSIVE RecordAll(_, _, _, _, _, _)
RecordAll(s, keys, i, interval_ms, duration_ms, t) ==
    IF i > Len(keys) THEN s
    ELSE CHOOSE done \in
             { RecordAll(after, keys, i + 1, interval_ms, duration_ms, t) :
                 after \in { record_event(s, <<keys[i]>>, interval_ms, duration_ms,
                                          t + i,
                                          IF i = 1 THEN None
                                          ELSE Some(<<keys[i - 1]>>)) } } : TRUE

\* "".join(str(key).lower() for key in keys if str(key).isalpha())
RECURSIVE MockWord(_)
MockWord(keys) ==
    IF keys = <<>> THEN <<>>
    ELSE (IF IsAlpha(keys[1]) THEN <<LowerChar(keys[1])>> ELSE <<>>)
            \o MockWord(Tail(keys))

\* the summary after _score_mock_word(summary, keys)
_score_mock_word(s, keys) ==
    LET word == MockWord(keys)
    IN  IF word = <<>> THEN s
        ELSE LET accuracy == Get(s, "word_accuracy", ZeroAccuracy)
                 key == IF is_correct(word) THEN "correct" ELSE "incorrect"
                 counted == [accuracy EXCEPT ![key] = @ + 1]
             IN  Put(s, "word_accuracy",
                     [counted EXCEPT !.score = accuracy.score + accuracy_points[key]])

\* inject_keys(keys, summary_path, keystroke_path, debug_path) with the
\* default interval and duration; with_debug says that debug_path is given.
\* The summary is persisted before the word is scored.  json.load raises on
\* a file that is not a JSON document, and nothing is written then.
inject_keys(keys, with_debug) ==
    /\ keys # <<>>
    /\ injected' = Append(injected, keys)
    /\ IF disk.exists /\ ~disk.valid
       THEN UNCHANGED <<now, disk, returned, debug_log>>
       ELSE LET summary0 == load_summary_mock(disk)
                recorded == RecordAll(summary0, keys, 1, 120, 60, now)
            IN  /\ now' = now + Len(keys)
                /\ disk' = JsonDump(recorded)
                /\ returned' = Some(_score_mock_word(recorded, keys))
                /\ debug_log' =
                      IF with_debug
                      THEN Append(debug_log, [kind |-> "Mock injected",
                                              events |-> Len(keys),
                                              key |-> keys[Len(keys)]])
                      ELSE debug_log
    /\ UNCHANGED <<pc, ret, raised, InMemory, tmp, Config, loaded, presses, runs,
                   Speed, Side, resets, snapshot, Widget, Insight>>

(***************************************************************************)
(* scripts/widget_refresh.py: the snapshot of a summary for the widget.    *)
(* avg_interval, speed_ref and threshold are in tenths of a millisecond.   *)
(***************************************************************************)
ASCII_LAYOUT == <<"q","w","e","r","t","y","u","i","o","p","a","s","d","f","g","h",
                  "j","k","l","z","x","c","v","b","n","m">>

Abs(x) == IF x < 0 THEN -x ELSE x

\* ASCII_LAYOUT.index(key[0].lower()) when key is non-empty and its first
\* character, lower-cased, is in the layout; None otherwise
LayoutIndex(key) ==
    IF key = <<>> THEN None
    ELSE LET c == LowerChar(key[1])
         IN  IF \E i \in 1..Len(ASCII_LAYOUT) : ASCII_LAYOUT[i] = c
             THEN Some((CHOOSE i \in 1..Len(ASCII_LAYOUT) : ASCII_LAYOUT[i] = c) - 1)
             ELSE None

\* what the inner loop adds to score for the entry key_pairs[src][dst]
HandshakeStep(key_pairs, src, dst, threshold, speed_ref) ==
    IF LayoutIndex(src) = None \/ LayoutIndex(dst) = None THEN 0
    ELSE IF /\ Abs(Val(LayoutIndex(src)) - Val(LayoutIndex(dst))) >= 4
            /\ (speed_ref < threshold \/ speed_ref = 0)
         THEN key_pairs[src][dst]
         ELSE 0

\* score after the two loops have visited the entries in pairs
RECURSIVE HandshakeScore(_, _, _, _)
HandshakeScore(key_pairs, pairs, threshold, speed_ref) ==
    IF pairs = {} THEN 0
    ELSE LET p == CHOOSE x \in pairs : TRUE
         IN  HandshakeStep(key_pairs, p[1], p[2], threshold, speed_ref)
                + HandshakeScore(key_pairs, pairs \ {p}, threshold, speed_ref)

\* the (src, dst) entries of a key_pairs mapping
PairEntries(key_pairs) ==
    UNION { { <<src, dst>> : dst \in DOMAIN key_pairs[src] } : src \in DOMAIN key_pairs }

compute_handshake_Uncapped(s, threshold, speed_ref) ==
    LET key_pairs == Get(s, "key_pairs", EmptyDict)
    IN  HandshakeScore(key_pairs, PairEntries(key_pairs), threshold, speed_ref)
compute_handshake(s, threshold, speed_ref) ==
    LET key_pairs == Get(s, "key_pairs", EmptyDict)
    IN  Min2(HandshakeScore(key_pairs, PairEntries(key_pairs), threshold, speed_ref),
             80)

\* compute_speed_score(avg_interval_ms), an exact quotient
compute_speed_score(avg_interval) ==
    IF avg_interval > 0
    THEN IF 600000 >= 120 * avg_interval THEN Whole(120)
         ELSE Ratio(600000, avg_interval)
    ELSE Whole(0)

HandshakeThreshold == 2500

\* build_snapshot(summary), without the timestamp
build_snapshot(s) ==
    LET avg_interval == Get(Get(s, "typing_profile", EmptyDict), "avg_interval", 0)
    IN  [keyProgress |-> Get(s, "total_events", 0),
         keyTarget |-> 5000,
         speedProgress |-> compute_speed_score(avg_interval),
         speedTarget |-> 120,
         handshakeProgress |-> compute_handshake(s, HandshakeThreshold, avg_interval),
         handshakeTarget |-> 80]

\* load_summary and build_snapshot on the summary file; read_text raises on
\* an absent file and json.loads on one that is not a JSON document
BuildSnapshot ==
    /\ disk.exists /\ disk.valid
    /\ snapshot' = Some(build_snapshot(disk.doc))
    /\ UNCHANGED <<Logger, Speed, Side, injected, returned, debug_log, resets, Widget,
                   Insight>>

\* round(n / d) for d > 0, as Python rounds: to the nearest integer, a tie
\* to the even one
RoundHalfEven(n, d) ==
    LET q == n \div d
        r == n % d
    IN  IF 2 * r < d THEN q
        ELSE IF 2 * r > d THEN q + 1
        ELSE IF q % 2 = 0 THEN q ELSE q + 1

\* max(0.0, min(1.0, ratio)) of a ratio num/den with den > 0
ClampRatio(ratio) ==
    IF ratio.num < 0 THEN [num |-> 0, den |-> 1]
    ELSE IF ratio.num > ratio.den THEN [num |-> 1, den |-> 1]
    ELSE ratio

scaled_keys == <<"total_events", "letters", "actions", "words", "rage_clicks",
                 "long_pauses">>

\* adjusted after the loop has visited scaled_keys[i..]
RECURSIVE ScaleFrom(_, _, _, _)
ScaleFrom(adjusted, s, ratio, i) ==
    IF i > Len(scaled_keys) THEN adjusted
    ELSE LET key == scaled_keys[i]
         IN  ScaleFrom(IF Has(s, key)
                       THEN Put(adjusted, key,
                                Max2(1, RoundHalfEven(s[key] * ratio.num, ratio.den)))
                       ELSE adjusted,
                       s, ratio, i + 1)

\* apply_sample_adjustments(summary, settings): the object it returns, and
\* the summary object it was given as that object is when it returns (the
\* copies are shallow, and only the copies are assigned to)
apply_sample_adjustments_InPlace(s, settings) ==
    LET ratio == ClampRatio(settings.sample_total_ratio)
        typing == Put(Get(s, "typing_profile", EmptyDict), "avg_interval",
                      settings.sample_avg_interval)
    IN  [summary |-> IF Has(s, "typing_profile") THEN Put(s, "typing_profile", typing)
                     ELSE s,
         adjusted |-> Put(ScaleFrom(s, s, ratio, 1), "typing_profile", typing)]
apply_sample_adjustments(s, settings) ==
    LET ratio == ClampRatio(settings.sample_total_ratio)
        typing == Put(Get(s, "typing_profile", EmptyDict), "avg_interval",
                      settings.sample_avg_interval)
    IN  [summary |-> s,
         adjusted |-> Put(ScaleFrom(s, s, ratio, 1), "typing_profile", typing)]

_clamp_accuracy_score_NoFloor(score, target) == Min2(score, target)
_clamp_accuracy_score(score, target) == Max2(0, Min2(score, target))

WidgetModes == {"real", "sample"}

\* persist_widget_progress(summary_path, progress_path, mode), without the
\* timestamp of the snapshot; load_summary raises on a file that is absent
\* or not a JSON document, and nothing is written then
persist_widget_progress(mode) ==
    IF ~(disk.exists /\ disk.valid)
    THEN /\ widget_call' = Some([mode |-> mode, raised |-> TRUE,
                                 loaded |-> EmptyDict, used |-> EmptyDict])
         /\ UNCHANGED <<Logger, Speed, Side, injected, returned, debug_log, resets,
                        snapshot, progress, widget_settings, Insight>>
    ELSE LET sampled == apply_sample_adjustments(disk.doc, widget_settings)
             s == IF mode = "sample" THEN sampled.adjusted ELSE disk.doc
             loaded_after == IF mode = "sample" THEN sampled.summary ELSE disk.doc
             raw_score == Get(Get(s, "word_accuracy", EmptyDict), "score", 0)
             with_score == Put(build_snapshot(s), "wordAccuracyScore",
                               _clamp_accuracy_score(raw_score, accuracy_target))
         IN  /\ progress' = Some(Put(with_score, "wordAccuracyTarget", accuracy_target))
             /\ widget_call' = Some([mode |-> mode, raised |-> FALSE,
                                     loaded |-> loaded_after, used |-> s])
             /\ UNCHANGED <<Logger, Speed, Side, injected, returned, debug_log, resets,
                            snapshot, widget_settings, Insight>>

(***************************************************************************)
(* scripts/widget_gpt.py and gpt_insights.py: the insight operations.  A   *)
(* text is a record: Str(v) for a Python string, Null for None.  The LLM   *)
(* call is the one step the operations wait in; what it does is the        *)
(* environment's choice.                                                   *)
(***************************************************************************)
Str(v) == [t |-> "str", v |-> v]
Null == [t |-> "null", v |-> ""]
\* bool(x) of a text or None
Truthy(x) == x.t = "str" /\ x.v # ""
\* x or y
OrElse(x, y) == IF Truthy(x) THEN x ELSE y

JsonWithText == "{\"analysis_text\": \"Deep insight\"}"
JsonEmptyText == "{\"analysis_text\": \"\"}"
JsonWithoutText == "{\"title\": \"Tempo\"}"
JsonList == "[1]"

\* what the chat completion can hand back as message.content
LlmContents ==
    {Null, Str(""), Str("Fresh insight!"), Str(JsonWithText), Str(JsonEmptyText),
     Str(JsonWithoutText), Str(JsonList)}
\* what the LLM call can do once it is made and comes back: raise (network,
\* authentication, a timeout of the client library) or return a content
LlmOutcomes ==
    {[raises |-> TRUE, content |-> Null]}
        \cup {[raises |-> FALSE, content |-> c] : c \in LlmContents}

\* json.loads(text) for the texts above: a dict, another JSON value, or
\* JSONDecodeError; TypeError for None
JsonLoads(text) ==
    IF text.t # "str" THEN [error |-> "TypeError", is_dict |-> FALSE, value |-> EmptyDict]
    ELSE IF text.v = JsonWithText
         THEN [error |-> "", is_dict |-> TRUE,
               value |-> ("analysis_text" :> Str("Deep insight"))]
    ELSE IF text.v = JsonEmptyText
         THEN [error |-> "", is_dict |-> TRUE, value |-> ("analysis_text" :> Str(""))]
    ELSE IF text.v = JsonWithoutText
         THEN [error |-> "", is_dict |-> TRUE, value |-> ("title" :> Str("Tempo"))]
    ELSE IF text.v = JsonList
         THEN [error |-> "", is_dict |-> FALSE, value |-> EmptyDict]
    ELSE [error |-> "JSONDecodeError", is_dict |-> FALSE, value |-> EmptyDict]

\* parse_structured_response(text): only JSONDecodeError is caught
parse_structured_response(text) ==
    LET payload == JsonLoads(text)
    IN  IF payload.error = "TypeError" THEN [raised |-> TRUE, value |-> EmptyDict]
        ELSE IF payload.error = "" /\ payload.is_dict
             THEN [raised |-> FALSE, value |-> payload.value]
        ELSE [raised |-> FALSE, value |-> EmptyDict]

\* call_openai before the request is sent: ImportError without the module,
\* ValueError without an API key
CallRaisesEarly == ~llm_env.sdk \/ ~llm_env.api_key

\* ---- widget_gpt.run_cycle ----
\* fallback_message(current, diff_lines, iteration, mode): never empty
fallback_message(current, diff_lines, iteration, mode) ==
    [t |-> "str", v |-> "[mode] iteration n: diff. You now sit at ...",
     mode |-> mode, iteration |-> iteration,
     diff |-> IF diff_lines = <<>> THEN "steady rhythm" ELSE diff_lines[1],
     keyProgress |-> Get(current, "keyProgress", 0)]

\* float(d.get(key, 0)) as an exact quotient; speedProgress is stored as one
ProgressValue(d, key) ==
    IF ~Has(d, key) THEN Whole(0)
    ELSE IF key = "speedProgress" THEN d[key]
    ELSE Whole(d[key])
\* abs(a - b) >= 0.5
Differs(a, b) == 2 * Abs(a.num * b.den - b.num * a.den) >= a.den * b.den

\* describe_diff(current, previous): the labels of the values that moved
DiffOf(current, previous, key, label) ==
    IF Differs(ProgressValue(current, key), ProgressValue(previous, key))
    THEN <<label>> ELSE <<>>
describe_diff(current, previous) ==
    DiffOf(current, previous, "keyProgress", "Keystrokes")
        \o DiffOf(current, previous, "speedProgress", "Speed points")
        \o DiffOf(current, previous, "handshakeProgress", "Keyboard balance")

\* _load_cached_insight(config, mode, root): None when there is no file
\* analysis_text or analysis or structured.analysis_text
_load_cached_insight ==
    IF insight_out = None THEN Null
    ELSE LET data == Val(insight_out)
             structured == Get(data, "structured", EmptyDict)
         IN  OrElse(Get(data, "analysis_text", Null),
                    OrElse(Get(data, "analysis", Null),
                           Get(structured, "analysis_text", Null)))

DebugLine(kind, iteration) ==
    [kind |-> kind, iteration |-> iteration, mode |-> insight_mode]

\* the two write_json calls that end run_cycle, and its return of True
CycleWrites_FirstSnapshot(frame, message, lines) ==
    /\ feed' = Some([mode |-> insight_mode, iteration |-> frame.iteration,
                     analysis_text |-> message, diff |-> frame.diff_lines,
                     progress |-> frame.snapshot])
    /\ gpt_state' = Some([last_hash |-> frame.snapshot,
                          last_snapshot |-> IF gpt_state = None THEN frame.snapshot
                                            ELSE Val(gpt_state).last_snapshot,
                          iteration |-> frame.iteration])
    /\ debug_log' = debug_log \o lines
    /\ insight_ret' = Some([op |-> "run_cycle", result |-> "True",
                            iteration |-> frame.iteration])
    /\ insight_pc' = "idle"
    /\ insight_frame' = EmptyDict
CycleWrites(frame, message, lines) ==
    /\ feed' = Some([mode |-> insight_mode, iteration |-> frame.iteration,
                     analysis_text |-> message, diff |-> frame.diff_lines,
                     progress |-> frame.snapshot])
    /\ gpt_state' = Some([last_hash |-> frame.snapshot,
                          last_snapshot |-> frame.snapshot,
                          iteration |-> frame.iteration])
    /\ debug_log' = debug_log \o lines
    /\ insight_ret' = Some([op |-> "run_cycle", result |-> "True",
                            iteration |-> frame.iteration])
    /\ insight_pc' = "idle"
    /\ insight_frame' = EmptyDict

\* the except branch of run_cycle: message keeps the value it has
CycleError(frame, message) ==
    CycleWrites(frame, message, <<DebugLine("GPT prompt", frame.iteration),
                                  DebugLine("GPT request error", frame.iteration)>>)

\* run_cycle(...) up to the LLM call, and to its end when no request is sent
run_cycle_call_AlwaysAsks(dry_run) ==
    /\ insight_pc = "idle"
    /\ IF progress = None
       THEN /\ insight_ret' = Some([op |-> "run_cycle", result |-> "False",
                                    iteration |-> 0])
            /\ UNCHANGED <<insight_pc, insight_frame, feed, gpt_state, debug_log>>
       ELSE LET snapshot_doc == Val(progress)
                state == IF gpt_state = None THEN EmptyDict ELSE Val(gpt_state)
                previous_snapshot == Get(state, "last_snapshot", EmptyDict)
                diff_lines == describe_diff(snapshot_doc, previous_snapshot)
                iteration == Get(state, "iteration", 0) + 1
                cached_insight == _load_cached_insight
                message == OrElse(cached_insight,
                                  fallback_message(snapshot_doc, diff_lines, iteration,
                                                   insight_mode))
                frame == [op |-> "run_cycle", snapshot |-> snapshot_doc,
                          diff_lines |-> diff_lines, iteration |-> iteration,
                          message |-> message, reply |-> None]
            IN  IF Truthy(cached_insight)
                THEN CycleWrites(frame, message,
                                 <<DebugLine("Reusing cached insight", iteration)>>)
                ELSE IF FALSE THEN CycleWrites(frame, message, <<>>)
                ELSE IF CallRaisesEarly THEN CycleError(frame, message)
                ELSE /\ insight_pc' = "cycle_calling"
                     /\ insight_frame' = frame
                     /\ debug_log' = Append(debug_log, DebugLine("GPT prompt", iteration))
                     /\ UNCHANGED <<insight_ret, feed, gpt_state>>
    /\ UNCHANGED <<Logger, Speed, Side, injected, returned, resets, snapshot, Widget,
                   insight_mode, llm_env, insight_out, insight_meta>>
run_cycle_call(dry_run) ==
    /\ insight_pc = "idle"
    /\ IF progress = None
       THEN /\ insight_ret' = Some([op |-> "run_cycle", result |-> "False",
                                    iteration |-> 0])
            /\ UNCHANGED <<insight_pc, insight_frame, feed, gpt_state, debug_log>>
       ELSE LET snapshot_doc == Val(progress)
                state == IF gpt_state = None THEN EmptyDict ELSE Val(gpt_state)
                previous_snapshot == Get(state, "last_snapshot", EmptyDict)
                diff_lines == describe_diff(snapshot_doc, previous_snapshot)
                iteration == Get(state, "iteration", 0) + 1
                cached_insight == _load_cached_insight
                message == OrElse(cached_insight,
                                  fallback_message(snapshot_doc, diff_lines, iteration,
                                                   insight_mode))
                frame == [op |-> "run_cycle", snapshot |-> snapshot_doc,
                          diff_lines |-> diff_lines, iteration |-> iteration,
                          message |-> message, reply |-> None]
            IN  IF Truthy(cached_insight)
                THEN CycleWrites(frame, message,
                                 <<DebugLine("Reusing cached insight", iteration)>>)
                ELSE IF dry_run THEN CycleWrites(frame, message, <<>>)
                ELSE IF CallRaisesEarly THEN CycleError(frame, message)
                ELSE /\ insight_pc' = "cycle_calling"
                     /\ insight_frame' = frame
                     /\ debug_log' = Append(debug_log, DebugLine("GPT prompt", iteration))
                     /\ UNCHANGED <<insight_ret, feed, gpt_state>>
    /\ UNCHANGED <<Logger, Speed, Side, injected, returned, resets, snapshot, Widget,
                   insight_mode, llm_env, insight_out, insight_meta>>

\* the LLM call comes back
LlmReturns(outcome) ==
    /\ insight_pc \in {"cycle_calling", "run_calling"}
    /\ insight_frame' = [insight_frame EXCEPT !.reply = Some(outcome)]
    /\ insight_pc' = IF insight_pc = "cycle_calling" THEN "cycle_replied"
                     ELSE "run_replied"
    /\ UNCHANGED <<Logger, Speed, Side, injected, returned, debug_log, resets, snapshot,
                   Widget, insight_mode, llm_env, insight_ret, feed, gpt_state,
                   insight_out, insight_meta>>

\* run_cycle from the return of call_openai on: message[:400] raises
\* TypeError for None, after message was assigned
run_cycle_return_Propagates ==
    /\ insight_pc = "cycle_replied"
    /\ LET frame == insight_frame
           reply == Val(frame.reply)
       IN  IF reply.raises
           THEN /\ insight_ret' = Some([op |-> "run_cycle", result |-> "raised",
                                        iteration |-> frame.iteration])
                /\ insight_pc' = "idle"
                /\ insight_frame' = EmptyDict
                /\ UNCHANGED <<feed, gpt_state, debug_log>>
           ELSE IF reply.content.t # "str" THEN CycleWrites(frame, reply.content,
                 <<DebugLine("GPT request error", frame.iteration)>>)
           ELSE CycleWrites(frame, reply.content,
                 <<DebugLine("GPT response", frame.iteration)>>)
    /\ UNCHANGED <<Logger, Speed, Side, injected, returned, resets, snapshot, Widget,
                   insight_mode, llm_env, insight_out, insight_meta>>
run_cycle_return ==
    /\ insight_pc = "cycle_replied"
    /\ LET frame == insight_frame
           reply == Val(frame.reply)
       IN  IF reply.raises THEN CycleWrites(frame, frame.message,
                 <<DebugLine("GPT request error", frame.iteration)>>)
           ELSE IF reply.content.t # "str" THEN CycleWrites(frame, reply.content,
                 <<DebugLine("GPT request error", frame.iteration)>>)
           ELSE CycleWrites(frame, reply.content,
                 <<DebugLine("GPT response", frame.iteration)>>)
    /\ UNCHANGED <<Logger, Speed, Side, injected, returned, resets, snapshot, Widget,
                   insight_mode, llm_env, insight_out, insight_meta>>

\* ---- gpt_insights.run ----
\* fallback_analysis(summary, sample_mode): at least five sentences
fallback_analysis(s, sample_mode) ==
    [t |-> "str", v |-> "Keyboard age: ... Top words: ... Fastest words: ...",
     sample_mode |-> sample_mode, total_events |-> Get(s, "total_events", 0)]
fallback_structured(s, sample_mode) ==
    [analysis_text |-> fallback_analysis(s, sample_mode), insights |-> "cards"]

\* write_insight and write_meta, and the return of run()
InsightWrites(text, structured, hash, success) ==
    /\ insight_out' = Some(IF structured # EmptyDict
                           THEN [analysis_text |-> text, structured |-> structured]
                           ELSE [analysis_text |-> text])
    /\ insight_meta' = Some([summary_hash |-> hash, last_success |-> success])
    /\ insight_ret' = Some([op |-> "run", result |-> "written", iteration |-> 0])
    /\ insight_pc' = "idle"
    /\ insight_frame' = EmptyDict

\* the except branch of run()
InsightFallback(s, hash) ==
    InsightWrites(fallback_analysis(s, FALSE),
                  fallback_structured(s, insight_mode = "sample"), hash, FALSE)

\* run() up to the LLM call, and to its end when no request is sent; the
\* hash of a summary is the summary
run_call_SkipsOnHash ==
    /\ insight_pc = "idle"
    /\ IF ~(disk.exists /\ disk.valid)
       THEN /\ insight_ret' = Some([op |-> "run", result |-> "raised", iteration |-> 0])
            /\ UNCHANGED <<insight_pc, insight_frame, insight_out, insight_meta>>
       ELSE LET s == disk.doc
                existing_meta == IF insight_meta = None THEN EmptyDict
                                 ELSE Val(insight_meta)
            IN  IF /\ Has(existing_meta, "summary_hash")
                   /\ existing_meta["summary_hash"] = s
                   /\ TRUE
                   /\ insight_out # None
                THEN /\ insight_ret' = Some([op |-> "run", result |-> "skipped",
                                             iteration |-> 0])
                     /\ UNCHANGED <<insight_pc, insight_frame, insight_out,
                                    insight_meta>>
                ELSE IF ~llm_env.api_key
                THEN InsightWrites(fallback_analysis(s, insight_mode = "sample"),
                                   fallback_structured(s, insight_mode = "sample"),
                                   s, FALSE)
                ELSE IF CallRaisesEarly THEN InsightFallback(s, s)
                ELSE /\ insight_pc' = "run_calling"
                     /\ insight_frame' = [op |-> "run", summary |-> s, reply |-> None]
                     /\ UNCHANGED <<insight_ret, insight_out, insight_meta>>
    /\ UNCHANGED <<Logger, Speed, Side, injected, returned, debug_log, resets, snapshot,
                   Widget, insight_mode, llm_env, feed, gpt_state>>
run_call ==
    /\ insight_pc = "idle"
    /\ IF ~(disk.exists /\ disk.valid)
       THEN /\ insight_ret' = Some([op |-> "run", result |-> "raised", iteration |-> 0])
            /\ UNCHANGED <<insight_pc, insight_frame, insight_out, insight_meta>>
       ELSE LET s == disk.doc
                existing_meta == IF insight_meta = None THEN EmptyDict
                                 ELSE Val(insight_meta)
            IN  IF /\ Has(existing_meta, "summary_hash")
                   /\ existing_meta["summary_hash"] = s
                   /\ existing_meta["last_success"]
                   /\ insight_out # None
                THEN /\ insight_ret' = Some([op |-> "run", result |-> "skipped",
                                             iteration |-> 0])
                     /\ UNCHANGED <<insight_pc, insight_frame, insight_out,
                                    insight_meta>>
                ELSE IF ~llm_env.api_key
                THEN InsightWrites(fallback_analysis(s, insight_mode = "sample"),
                                   fallback_structured(s, insight_mode = "sample"),
                                   s, FALSE)
                ELSE IF CallRaisesEarly THEN InsightFallback(s, s)
                ELSE /\ insight_pc' = "run_calling"
                     /\ insight_frame' = [op |-> "run", summary |-> s, reply |-> None]
                     /\ UNCHANGED <<insight_ret, insight_out, insight_meta>>
    /\ UNCHANGED <<Logger, Speed, Side, injected, returned, debug_log, resets, snapshot,
                   Widget, insight_mode, llm_env, feed, gpt_state>>

\* run() from the return of call_openai on
run_return ==
    /\ insight_pc = "run_replied"
    /\ LET s == insight_frame.summary
           reply == Val(insight_frame.reply)
           raw == reply.content
           parsed == parse_structured_response(raw)
       IN  IF reply.raises \/ parsed.raised THEN InsightFallback(s, s)
           ELSE InsightWrites(OrElse(Get(parsed.value, "analysis_text", Null), raw),
                              parsed.value, s, TRUE)
    /\ UNCHANGED <<Logger, Speed, Side, injected, returned, debug_log, resets, snapshot,
                   Widget, insight_mode, llm_env, feed, gpt_state>>

(***************************************************************************)
(* Specifications.                                                         *)
(***************************************************************************)
DefaultPoints == [correct |-> 1, incorrect |-> -2]
DefaultTarget == 120
DefaultMinLength == 1

\* the logger after construction, on file, with the given configuration
InitLogger(files, points, targets, lengths, oracles) ==
    /\ now = 0
    /\ disk \in files
    /\ tmp = NoFile
    /\ LET self == __init__(disk)
       IN  /\ summary = self.summary
           /\ last_press_time = self.last_press_time
           /\ last_key = self.last_key
           /\ last_logged_key = self.last_logged_key
           /\ rage_streak = self.rage_streak
           /\ word_buffer = self.word_buffer
           /\ previous_word = self.previous_word
           /\ current_day_label = self.current_day_label
           /\ word_start = self.word_start
           /\ word_last = self.word_last
           /\ pending_keys = self.pending_keys
           /\ current_word_letter_events = self.current_word_letter_events
           /\ log_open = self.log_open
    /\ loaded = disk
    /\ log_lines = 0
    /\ press_log = <<>>
    /\ pc = "idle"
    /\ ret = "idle"
    /\ raised = "none"
    /\ accuracy_points \in points
    /\ accuracy_target \in targets
    /\ min_length \in lengths
    /\ zipf_ok \in oracles
    /\ presses = 0
    /\ runs = 1

\* the state after construction, with an idle speed tracker and no script run
InitWith(files, points, targets, lengths, oracles) ==
    /\ InitLogger(files, points, targets, lengths, oracles)
    /\ InitSpeed({DefaultSpeedConfig})
    /\ InitScripts

\* sequential typing: a key is released before another one is pressed (a
\* key that is held may repeat)
Sequential(key) == pending_keys = <<>> \/ PendingIndex(key) # 0

\* one logger process: the keyboard hook calls the handlers until main()
\* calls stop()
NextWith(keys, pressGaps, releaseGaps, maxPresses) ==
    \/ \E key \in keys, d \in pressGaps :
          presses < maxPresses /\ Sequential(key) /\ on_press(key, d)
    \/ \E key \in keys, d \in releaseGaps : on_release(key, d)
    \/ PersistOpen
    \/ PersistSync
    \/ PersistReplace
    \/ StopBegin
    \/ \E d \in releaseGaps : StopFlush(d)
    \/ StopFinish
    \/ StopOpen
    \/ StopDump

\* Spec: a first run on no summary file with the default configuration
Keys == {KeyCode("a"), KeyCode("t"), Key_tab, Key_space}
PressGaps == {100, 2001}
ReleaseGaps == {40}

Init == InitWith({NoFile}, {DefaultPoints}, {DefaultTarget}, {DefaultMinLength}, {{}})
Next == NextWith(Keys, PressGaps, ReleaseGaps, MaxPresses)
Spec == Init /\ [][Next]_vars

\* SpecScore: the word accuracy scorer under other configurations, started
\* on a document whose stored score may lie outside [0, target]
StartScores == {-5, 0, 2, 500}
ScoreFiles ==
    { FileOf(Put(FreshSummary, "word_accuracy",
                 [score |-> sc, correct |-> 0, incorrect |-> 0])) : sc \in StartScores }
ScorePoints == {DefaultPoints, [correct |-> 5, incorrect |-> -7]}
ScoreTargets == {0, 3}
ScoreMinLengths == {1, 2}
ScoreOracles == {{}, {<<"t">>}}
ScoreKeys == {KeyCode("a"), KeyCode("t"), Key_tab}
ScoreGaps == {100}

InitScore == InitWith(ScoreFiles, ScorePoints, ScoreTargets, ScoreMinLengths, ScoreOracles)
NextScore == NextWith(ScoreKeys, ScoreGaps, ReleaseGaps, MaxScorePresses)
SpecScore == InitScore /\ [][NextScore]_vars

\* SpecRage: repeated presses of a key at gaps around the rage threshold; a
\* held key repeats without a release in between
RageKeys == {KeyCode("a"), KeyCode("t")}
RageGaps == {0, 100, 450}

NextRage == NextWith(RageKeys, RageGaps, ReleaseGaps, MaxRagePresses)
SpecRage == Init /\ [][NextRage]_vars

\* SpecBurst: bursts of presses while the listener runs: the handlers and
\* _persist_summary, before main() stops the logger
NextBurst ==
    \/ \E key \in RageKeys, d \in RageGaps :
          presses < MaxBurstPresses /\ Sequential(key) /\ on_press(key, d)
    \/ \E key \in RageKeys, d \in ReleaseGaps : on_release(key, d)
    \/ PersistOpen
    \/ PersistSync
    \/ PersistReplace
SpecBurst == Init /\ [][NextBurst]_vars

\* SpecOverlap: keys held together: a key may be pressed while others are
\* down, and the releases come in any order
OverlapKeys == {KeyCode("a"), KeyCode("t"), KeyCode("1"), Key_space}
OverlapGaps == {100}
NextOverlap ==
    \/ \E key \in OverlapKeys, d \in OverlapGaps :
          presses < MaxOverlapPresses /\ on_press(key, d)
    \/ \E key \in OverlapKeys, d \in ReleaseGaps : on_release(key, d)
    \/ PersistOpen
    \/ PersistSync
    \/ PersistReplace
    \/ StopBegin
    \/ \E d \in ReleaseGaps : StopFlush(d)
    \/ StopFinish
    \/ StopOpen
    \/ StopDump
SpecOverlap == Init /\ [][NextOverlap]_vars

\* SpecCounters: any sequence of on_press, on_release and stop() on a fresh
\* summary, keys held together or not, with bursts and long pauses
CounterKeys == {KeyCode("a"), Key_tab}
CounterGaps == {100, 2001}
NextCounters ==
    \/ \E key \in CounterKeys, d \in CounterGaps :
          presses < MaxCounterPresses /\ on_press(key, d)
    \/ \E key \in CounterKeys, d \in ReleaseGaps : on_release(key, d)
    \/ PersistOpen
    \/ PersistSync
    \/ PersistReplace
    \/ StopBegin
    \/ \E d \in ReleaseGaps : StopFlush(d)
    \/ StopFinish
    \/ StopOpen
    \/ StopDump
SpecCounters == Init /\ [][NextCounters]_vars

\* SpecLoad: the logger constructed on a summary file that is a JSON object
\* lacking fields, or is not JSON at all
Without(d, ks) == [k \in DOMAIN d \ ks |-> d[k]]
LoadFiles ==
    {FileOf(EmptyDict), PartialFile}
        \cup { FileOf(Without(FreshSummary, {f})) :
                 f \in {"total_events", "key_counts", "daily_activity",
                        "word_counts", "word_pairs", "first_event",
                        "word_accuracy", "interval_stats"} }
LoadKeys == {KeyCode("a"), Key_tab}
LoadGaps == {100}

InitLoad == InitWith(LoadFiles, {DefaultPoints}, {DefaultTarget}, {DefaultMinLength}, {{}})
NextLoad == NextWith(LoadKeys, LoadGaps, ReleaseGaps, MaxLoadPresses)
SpecLoad == InitLoad /\ [][NextLoad]_vars

\* SpecResume: logger processes one after the other on the same files; a
\* process ends by returning from stop() or by being killed at any point
ResumeKeys == {KeyCode("a"), Key_tab}

NextResume ==
    \/ NextWith(ResumeKeys, PressGaps, ReleaseGaps, MaxResumePresses)
    \/ runs < MaxResumeRuns /\ Restart
SpecResume == Init /\ [][NextResume]_vars

\* SpecPairs: typing with short gaps and long pauses, for the digraph counts
PairKeys == {KeyCode("a"), KeyCode("t"), Key_tab}

NextPairs == NextWith(PairKeys, PressGaps, ReleaseGaps, MaxPairPresses)
SpecPairs == Init /\ [][NextPairs]_vars

\* SpecSpeed: the speed session tracker fed with intervals and scored words
SpeedConfigs ==
    {DefaultSpeedConfig,
     [DefaultSpeedConfig EXCEPT !.accuracy_pct_threshold = 100],
     [DefaultSpeedConfig EXCEPT !.accuracy_pct_threshold = 70]}
SessionIntervals == {100, 120, 300, 6000}
SessionOpen ==
    /\ session.interval_count + session.words_total < MaxSessionOps
    /\ speed_points.sessions < MaxSessions

InitSpeedSpec ==
    /\ InitLogger({NoFile}, {DefaultPoints}, {DefaultTarget}, {DefaultMinLength}, {{}})
    /\ InitSpeed(SpeedConfigs)
    /\ InitScripts
NextSpeed ==
    \/ \E ms \in SessionIntervals : SessionOpen /\ TrackSessionInterval(ms)
    \/ \E ok \in BOOLEAN : SessionOpen /\ ScoreSessionWord(ok)
    \/ speed_points.sessions < MaxSessions /\ CommitSpeedSession
SpecSpeed == InitSpeedSpec /\ [][NextSpeed]_vars

\* SpecReset: logger processes one after the other, with reset_daily run
\* on the summary file in between
ResetKeys == {KeyCode("a"), Key_tab}
ResetGaps == {100}

NextReset ==
    \/ NextWith(ResetKeys, ResetGaps, ReleaseGaps, MaxResetPresses)
    \/ resets < MaxResets /\ reset_daily
    \/ runs < MaxResetRuns /\ Restart
SpecReset == Init /\ [][NextReset]_vars

\* SpecInject: inject_keys run on an absent summary file and then on the
\* file an earlier run wrote
HeyThere == <<"h","e","y"," ","t","h","e","r","e"," ">>
InjectSequences ==
    {HeyThere, <<"t","h","e">>, <<"a","t"," ","a"," ">>, <<"T","h","e"," ">>,
     <<"a">>, <<" ">>}

NextInject ==
    \E keys \in InjectSequences, with_debug \in BOOLEAN :
        Len(injected) < MaxInjects /\ inject_keys(keys, with_debug)
InitInject ==
    InitWith({NoFile, PartialFile}, {DefaultPoints}, {DefaultTarget},
             {DefaultMinLength}, {{}})
SpecInject == InitInject /\ [][NextInject]_vars

\* SpecWidget: build_snapshot on summary files a logger has written, with
\* digraph counts below and above the cap and average intervals around the
\* threshold
PairCounts == {1, 40, 80, 81}
WidgetPairs ==
    {EmptyDict}
      \cup { (<<"q">> :> (<<"t">> :> n)) : n \in PairCounts }
      \cup { (<<"q">> :> ((<<"t">> :> n) @@ (<<"r">> :> 7))) : n \in PairCounts }
      \cup { (<<"q">> :> (<<"t","a","b">> :> n)) @@ (<<"T">> :> (<<"q">> :> 50)) :
                n \in PairCounts }
      \cup { (<<"1">> :> (<<"t">> :> n)) @@ (<<"t">> :> (<<" ">> :> 9)) :
                n \in PairCounts }
      \cup { (<<"q">> :> (<<"t">> :> n)) @@ (<<"t">> :> (<<"q">> :> n)) :
                n \in PairCounts }
WidgetIntervals == {0, 1200, 2499, 2500, 2501, 4000}

RECURSIVE PairsTotal(_, _)
PairsTotal(key_pairs, pairs) ==
    IF pairs = {} THEN 0
    ELSE LET p == CHOOSE x \in pairs : TRUE
         IN  key_pairs[p[1]][p[2]] + PairsTotal(key_pairs, pairs \ {p})

\* a summary holding the digraph counts kp and the average interval avg
WidgetSummary(kp, avg) ==
    [FreshSummary EXCEPT
        !["key_pairs"] = kp,
        !["total_events"] = IF kp = EmptyDict THEN 0
                            ELSE PairsTotal(kp, PairEntries(kp)) + 1,
        !["typing_profile"] = [ZeroProfile EXCEPT !.avg_interval = avg]]
WidgetFiles ==
    { FileOf(WidgetSummary(kp, avg)) : kp \in WidgetPairs, avg \in WidgetIntervals }
        \cup { FileOf(Without(WidgetSummary(EmptyDict, avg), {"key_pairs"})) :
                  avg \in WidgetIntervals }

InitWidget ==
    InitWith(WidgetFiles, {DefaultPoints}, {DefaultTarget}, {DefaultMinLength}, {{}})
NextWidget == BuildSnapshot
SpecWidget == InitWidget /\ [][NextWidget]_vars

\* SpecSample: persist_widget_progress in both modes on summary files with
\* stored scores inside and outside [0, target], under several settings
SampleCounters ==
    { [total_events |-> 2000, letters |-> 1500, actions |-> 500, words |-> 800,
       rage_clicks |-> 40, long_pauses |-> 12],
      [total_events |-> 30, letters |-> 25, actions |-> 5, words |-> 6,
       rage_clicks |-> 1, long_pauses |-> 0],
      [total_events |-> 10, letters |-> 7, actions |-> 3, words |-> 2,
       rage_clicks |-> 0, long_pauses |-> 0] }
SampleScores == {-42, 0, 2, 165}
SampleSummary(counters, score) ==
    [FreshSummary EXCEPT
        !["total_events"] = counters.total_events,
        !["letters"] = counters.letters,
        !["actions"] = counters.actions,
        !["words"] = counters.words,
        !["rage_clicks"] = counters.rage_clicks,
        !["long_pauses"] = counters.long_pauses,
        !["typing_profile"] = [ZeroProfile EXCEPT !.avg_interval = 4000],
        !["word_accuracy"] = [score |-> score, correct |-> 0, incorrect |-> 0]]
SampleFiles ==
    { FileOf(SampleSummary(counters, score)) :
        counters \in SampleCounters, score \in SampleScores }
      \cup { FileOf(Without(SampleSummary(counters, 0), {"word_accuracy"})) :
                counters \in SampleCounters }
      \cup {NoFile}
SampleTargets == {0, 3, 120}
SampleRatios ==
    { [num |-> 1, den |-> 20], [num |-> 1, den |-> 10], [num |-> 1, den |-> 2],
      [num |-> 3, den |-> 2], [num |-> -1, den |-> 2] }
SampleSettings ==
    { [sample_total_ratio |-> ratio, sample_avg_interval |-> avg] :
        ratio \in SampleRatios, avg \in {1500, 2100} }

InitSample ==
    /\ InitLogger(SampleFiles, {DefaultPoints}, SampleTargets, {DefaultMinLength}, {{}})
    /\ InitSpeed({DefaultSpeedConfig})
    /\ InitScriptVars
    /\ InitWidgetVars(SampleSettings)
    /\ InitInsightVars({"real"}, {Offline})
    /\ InitCheckerVars({DefaultChecker})
    /\ InitMainVars
NextSample == \E mode \in WidgetModes : persist_widget_progress(mode)
SpecSample == InitSample /\ [][NextSample]_vars

\* SpecInsight: the widget bridge and the insight generator, run one
\* operation at a time on a progress file and a summary file, with and
\* without the openai module and an API key
InsightFiles ==
    { FileOf(SampleSummary(counters, 2)) :
        counters \in {[total_events |-> 30, letters |-> 25, actions |-> 5, words |-> 6,
                       rage_clicks |-> 1, long_pauses |-> 0]} }
        \cup {NoFile}
LlmEnvs == [sdk : BOOLEAN, api_key : BOOLEAN]
CyclesLeft ==
    IF gpt_state = None THEN TRUE ELSE Val(gpt_state).iteration < MaxCycles

InitInsight ==
    /\ InitLogger(InsightFiles, {DefaultPoints}, {DefaultTarget}, {DefaultMinLength}, {{}})
    /\ InitSpeed({DefaultSpeedConfig})
    /\ InitScriptVars
    /\ InitWidgetVars({DefaultWidgetSettings})
    /\ InitInsightVars(WidgetModes, LlmEnvs)
    /\ InitCheckerVars({DefaultChecker})
    /\ InitMainVars
NextInsight ==
    \/ insight_pc = "idle" /\ progress = None /\ persist_widget_progress(insight_mode)
    \/ \E dry_run \in BOOLEAN : CyclesLeft /\ run_cycle_call(dry_run)
    \/ \E outcome \in LlmOutcomes : LlmReturns(outcome)
    \/ run_cycle_return
    \/ run_call
    \/ run_return
SpecInsight == InitInsight /\ [][NextInsight]_vars

\* SpecInsightLive: the same, where an operation that can take a step of
\* its own takes it; when the LLM call comes back is up to the environment
SpecInsightLive ==
    /\ SpecInsight
    /\ WF_vars(run_cycle_return)
    /\ WF_vars(run_return)

\* SpecCycles: the widget bridge runs cycle after cycle while the widget
\* refresh rewrites the progress file, in either mode, at any time
NextCycles ==
    \/ \E mode \in WidgetModes : persist_widget_progress(mode)
    \/ \E dry_run \in BOOLEAN : CyclesLeft /\ run_cycle_call(dry_run)
    \/ \E outcome \in LlmOutcomes : LlmReturns(outcome)
    \/ run_cycle_return
SpecCycles == InitInsight /\ [][NextCycles]_vars

\* SpecRuns: gpt_insights.run again and again while the summary file may be
\* reset in between; at the start there is no insight file, with or without
\* the meta file of an earlier successful run
InitRuns ==
    /\ InitLogger(InsightFiles, {DefaultPoints}, {DefaultTarget}, {DefaultMinLength}, {{}})
    /\ InitSpeed({DefaultSpeedConfig})
    /\ InitScriptVars
    /\ InitWidgetVars({DefaultWidgetSettings})
    /\ InitCheckerVars({DefaultChecker})
    /\ InitMainVars
    /\ insight_mode \in WidgetModes
    /\ llm_env \in LlmEnvs
    /\ insight_pc = "idle"
    /\ insight_frame = EmptyDict
    /\ insight_ret = None
    /\ feed = None
    /\ gpt_state = None
    /\ insight_out = None
    /\ insight_meta \in {None, Some([summary_hash |-> disk.doc, last_success |-> TRUE])}
NextRuns ==
    \/ run_call
    \/ \E outcome \in LlmOutcomes : LlmReturns(outcome)
    \/ run_return
    \/ resets < MaxResets /\ reset_daily
SpecRuns == InitRuns /\ [][NextRuns]_vars

(***************************************************************************)
(* SpecChecker: is_correct on checkers of every configuration.             *)
(***************************************************************************)
\* is_correct(word) on the checker
CheckWord(word) ==
    /\ checked' = Some([word |-> word,
                        result |-> WordChecker_is_correct(
                                       word_checker.self,
                                       word_checker.zipf_frequency, word)])
    /\ UNCHANGED <<Logger, Speed, word_checker, Main, injected, returned,
                   debug_log, resets, snapshot, Widget, Insight>>

The == <<"t","h","e">>
Ani == <<"alef","nun","yod">>
Qx == <<"q","x">>
Zz == <<"z","z">>
CheckWords ==
    { The, <<"T","h","e">>, <<" ","t","h","e"," ">>, <<"a">>, <<>>, <<" ">>,
      Ani, Qx, Zz }
CheckThresholds == {DefaultThreshold}
CheckMinLengths == {1, 3}
CheckExtraWords == {None, Some({<<"Q","x">>})}
CheckFallbackWords == {None, Some({Zz})}
CheckLanguages ==
    {None, Some(<<En>>), Some(<<He>>), Some(<<En, He>>), Some(<<<<"E","N">>>>),
     Some(<<<<"f","r">>>>)}
\* without wordfreq; with it: "zz" is frequent in English only, "qx" in Hebrew
\* only, "the" is below the threshold in Hebrew, and there is no French data
CheckOracles ==
    {None,
     Some([freq |-> (<<Zz, En>> :> 30) @@ (<<Qx, He>> :> 25)
                      @@ (<<The, En>> :> 77) @@ (<<The, He>> :> 24),
           langs |-> {En, He}])}
Checkers ==
    { [args |-> [threshold |-> th, min_length |-> ml, extra_words |-> ex,
                 fallback_words |-> fb, languages |-> ls],
       self |-> WordChecker(th, ml, ex, fb, ls),
       zipf_frequency |-> o]
      : th \in CheckThresholds, ml \in CheckMinLengths,
        ex \in CheckExtraWords, fb \in CheckFallbackWords,
        ls \in CheckLanguages, o \in CheckOracles }

InitChecker ==
    /\ InitLogger({NoFile}, {DefaultPoints}, {DefaultTarget}, {DefaultMinLength}, {{}})
    /\ InitSpeed({DefaultSpeedConfig})
    /\ InitScriptVars
    /\ InitWidgetVars({DefaultWidgetSettings})
    /\ InitInsightVars({"real"}, {Offline})
    /\ InitCheckerVars(Checkers)
    /\ InitMainVars
NextChecker == \E word \in CheckWords : CheckWord(word)
SpecChecker == InitChecker /\ [][NextChecker]_vars

(***************************************************************************)
(* main() of keyboard_logger.py and the health status document.            *)
(***************************************************************************)
\* write_health_status(status, message): the document, then a debug line
write_health_status(status, message) ==
    /\ health' = Some([status |-> status, message |-> message,
                       timestamp |-> now \div 1000])
    /\ debug_log' = Append(debug_log, [kind |-> "health", message |-> message])

AdapterErrors == {"OSError", "PermissionError"}
MainFrame == <<Speed, Checker, injected, returned, resets, snapshot, Widget, Insight>>
LoggerAtRest == <<now, ret, InMemory, Files, Config, loaded, presses, runs>>

\* the call of logger.stop()
CallStop == pc' = "stop_flush" /\ raised' = "none"

\* main() up to the construction of the listener
MainStart ==
    /\ main_pc = "constructed"
    /\ write_health_status("starting", "Preparing keyboard listener.")
    /\ main_pc' = "starting"
    /\ UNCHANGED <<Logger, MainFrame, listener_error, propagated>>

\* keyboard.Listener(...) is constructed and entered
ListenerEnters ==
    /\ main_pc = "starting"
    /\ write_health_status("listening", "Keyboard listener active.")
    /\ main_pc' = "listening"
    /\ UNCHANGED <<Logger, MainFrame, listener_error, propagated>>

\* except (OSError, PermissionError): the status, then logger.stop()
ExceptBranch ==
    /\ write_health_status("error", "Permission error")
    /\ CallStop
    /\ main_pc' = "except_stop"
    /\ propagated' = propagated

\* keyboard.Listener(...) or its __enter__ raises: no handler has run
ListenerFailsToStart(e) ==
    /\ main_pc = "starting"
    /\ listener_error' = e
    /\ ExceptBranch
    /\ UNCHANGED <<LoggerAtRest, MainFrame>>

\* listener.join() raises what the listener thread raised: an error of the
\* adapter, or the exception a handler ended with; finally: logger.stop()
ListenerRaises(e) ==
    /\ main_pc = "listening"
    /\ \/ pc = "idle" /\ e \in AdapterErrors
       \/ pc = "failed" /\ e = raised
    /\ listener_error' = e
    /\ CallStop
    /\ main_pc' = "finally_stop"
    /\ UNCHANGED <<LoggerAtRest, MainFrame, health, debug_log, propagated>>

\* Ctrl+C while main() waits in listener.join()
KeyboardInterrupt ==
    /\ main_pc = "listening"
    /\ pc = "idle"
    /\ write_health_status("stopped", "Stopped by user.")
    /\ CallStop
    /\ main_pc' = "finally_stop"
    /\ UNCHANGED <<LoggerAtRest, MainFrame, listener_error, propagated>>

\* the end of the finally block after stop() returned; the exception of the
\* listener, if any, goes on to the except clause
FinallyEnds ==
    /\ main_pc = "finally_stop"
    /\ pc = "stopped"
    /\ write_health_status("stopped", "Logger stopped gracefully.")
    /\ IF listener_error \in AdapterErrors
       THEN main_pc' = "except" /\ propagated' = propagated
       ELSE main_pc' = "exited" /\ propagated' = listener_error
    /\ UNCHANGED <<Logger, MainFrame, listener_error>>

\* the except clause for an adapter error raised by listener.join()
ExceptAfterFinally ==
    /\ main_pc = "except"
    /\ ExceptBranch
    /\ UNCHANGED <<LoggerAtRest, MainFrame, listener_error>>

\* stop() in the except clause returned: raise
ExceptEnds ==
    /\ main_pc = "except_stop"
    /\ pc = "stopped"
    /\ main_pc' = "exited"
    /\ propagated' = listener_error
    /\ UNCHANGED <<Logger, MainFrame, listener_error, health, debug_log>>

\* stop() raised: its exception leaves main() in place of the one in flight
\* (it is no OSError, so the except clause does not take it)
StopRaises ==
    /\ main_pc \in {"finally_stop", "except_stop"}
    /\ pc = "aborted"
    /\ main_pc' = "exited"
    /\ propagated' = raised
    /\ UNCHANGED <<Logger, MainFrame, listener_error, health, debug_log>>

\* SpecMain: one run of main() on no summary file
MainKeys == {KeyCode("a"), Key_space}
InitMain ==
    /\ InitLogger({NoFile}, {DefaultPoints}, {DefaultTarget}, {DefaultMinLength}, {{}})
    /\ InitSpeed({DefaultSpeedConfig})
    /\ InitScriptVars
    /\ InitWidgetVars({DefaultWidgetSettings})
    /\ InitInsightVars({"real"}, {Offline})
    /\ InitCheckerVars({DefaultChecker})
    /\ InitMainVars
NextMain ==
    \/ MainStart
    \/ ListenerEnters
    \/ \E e \in AdapterErrors : ListenerFailsToStart(e)
    \/ \E key \in MainKeys, d \in {100} :
          /\ main_pc = "listening" /\ presses < MaxMainPresses
          /\ Sequential(key) /\ on_press(key, d)
    \/ \E key \in MainKeys, d \in ReleaseGaps :
          main_pc = "listening" /\ on_release(key, d)
    \/ PersistOpen
    \/ PersistSync
    \/ PersistReplace
    \/ \E e \in AdapterErrors \cup {raised} : ListenerRaises(e)
    \/ KeyboardInterrupt
    \/ \E d \in ReleaseGaps : StopFlush(d)
    \/ StopFinish
    \/ StopOpen
    \/ StopDump
    \/ FinallyEnds
    \/ ExceptAfterFinally
    \/ ExceptEnds
    \/ StopRaises
SpecMain == InitMain /\ [][NextMain]_vars

(***************************************************************************)
(* Steps, as seen from a pair of states.                                   *)
(***************************************************************************)
AllKeys == {KeyCode("a"), KeyCode("t"), KeyCode("A"), KeyCode("1"), KeyCodeVk,
            Key_space, Key_enter, Key_tab, Key_shift}
DelimiterKeys == {Key_space, Key_enter, Key_tab}

\* this step is the call on_press(key)
PressOf(key) == on_press(key, now' - now)
\* the interval on_press measures in this step
PressInterval == IntervalAt(now')

Scored(s) == s["word_accuracy"].correct + s["word_accuracy"].incorrect
WordCount(s, w) == Get(s["word_counts"], w, 0)
PairCount(s, w1, w2) == Get(Get(s["word_pairs"], w1, EmptyDict), w2, 0)

(***************************************************************************)
(* C1.  With a non-empty letter buffer holding w, a press of the space,    *)
(* enter or tab key (with no long pause before it) finalizes the word:     *)
(* words and word_counts[w] grow by 1, the word is scored and the buffer   *)
(* is empty afterwards.                                                    *)
(***************************************************************************)
C1_DelimiterFinalizesWord ==
    [][\A key \in DelimiterKeys :
          (PressOf(key) /\ word_buffer # <<>> /\ PressInterval <= LongPauseMs)
          => LET w == Join(word_buffer)
             IN  /\ summary'["words"] = summary["words"] + 1
                 /\ WordCount(summary', w) = WordCount(summary, w) + 1
                 /\ Scored(summary') = Scored(summary) + 1
                 /\ word_buffer' = <<>>]_vars

\* the tab key has finalized and scored a word
C1_Witness ==
    /\ summary["words"] = 1
    /\ Scored(summary) = 1
    /\ word_buffer = <<>>
    /\ Len(press_log) >= 2
    /\ press_log[Len(press_log)][1] = <<"t","a","b">>

(***************************************************************************)
(* C2.  The word chain.  A word w2 finalized by a delimiter while          *)
(* previous_word is w1 adds exactly 1 to word_pairs[w1][w2] and nothing    *)
(* else to word_pairs, and w2 becomes previous_word; previous_word stays   *)
(* w1 from the finalization of w1 up to there unless a long pause comes:   *)
(* a press after a long pause still counts the buffered word but leaves    *)
(* previous_word None, and a word finalized while previous_word is None    *)
(* adds nothing to word_pairs.                                             *)
(***************************************************************************)
DelimiterFinalizing(key) ==
    /\ _normalize_key(key) \in Delimiters
    /\ word_buffer # <<>>
    /\ PressInterval <= LongPauseMs

C2_PressChain(key) ==
    LET w == Join(word_buffer)
    IN  /\ (DelimiterFinalizing(key) /\ previous_word # None)
           => /\ summary'["word_pairs"]
                    = IncrPair(summary["word_pairs"], Val(previous_word), w)
              /\ PairCount(summary', Val(previous_word), w)
                    = PairCount(summary, Val(previous_word), w) + 1
              /\ previous_word' = Some(w)
        /\ (DelimiterFinalizing(key) /\ previous_word = None)
           => /\ summary'["word_pairs"] = summary["word_pairs"]
              /\ previous_word' = Some(w)
        /\ PressInterval > LongPauseMs
           => /\ previous_word' = None
              /\ word_buffer # <<>>
                 => /\ summary'["words"] = summary["words"] + 1
                    /\ WordCount(summary', w) = WordCount(summary, w) + 1
        /\ (PressInterval <= LongPauseMs /\ ~DelimiterFinalizing(key))
           => /\ previous_word' = previous_word
              /\ summary'["word_pairs"] = summary["word_pairs"]

C2_WordPairsFollowChain ==
    [][/\ \A key \in AllKeys : PressOf(key) => C2_PressChain(key)
       /\ (presses' = presses /\ ~StopFinish)
          => /\ previous_word' = previous_word
             /\ summary'["word_pairs"] = summary["word_pairs"]]_vars

\* two different words chained by a delimiter
C2_Witness ==
    /\ previous_word # None
    /\ summary["words"] = 2
    /\ \E w1 \in DOMAIN summary["word_pairs"] :
          /\ w1 # Val(previous_word)
          /\ PairCount(summary, w1, Val(previous_word)) = 1

(***************************************************************************)
(* C3.  A word finalized by a long pause or by stop() is counted in words  *)
(* and word_counts and leaves word_accuracy as it was; word_accuracy       *)
(* changes only when a delimiter finalizes a word.                         *)
(***************************************************************************)
C3_UnscoredFinalization ==
    [][/\ \A key \in AllKeys :
             (PressOf(key) /\ PressInterval > LongPauseMs /\ word_buffer # <<>>)
             => /\ summary'["words"] = summary["words"] + 1
                /\ WordCount(summary', Join(word_buffer))
                      = WordCount(summary, Join(word_buffer)) + 1
                /\ summary'["word_accuracy"] = summary["word_accuracy"]
       /\ (StopFinish /\ word_buffer # <<>>)
             => /\ summary'["words"] = summary["words"] + 1
                /\ WordCount(summary', Join(word_buffer))
                      = WordCount(summary, Join(word_buffer)) + 1
                /\ summary'["word_accuracy"] = summary["word_accuracy"]
       /\ summary'["word_accuracy"] # summary["word_accuracy"]
             => \E key \in AllKeys : PressOf(key) /\ DelimiterFinalizing(key)]_vars

\* stop() has finalized a word and a long pause has finalized another, and
\* nothing was scored
C3_Witness ==
    /\ pc = "stopped"
    /\ summary["words"] >= 2
    /\ Scored(summary) = 0
    /\ \E i \in 1..Len(press_log) : press_log[i][2] > LongPauseMs

(***************************************************************************)
(* C7.  The file at the summary path always holds a complete document:     *)
(* every write of it is the rename of a complete temporary file.           *)
(***************************************************************************)
C7_SummaryFileAlwaysComplete == disk.exists => disk.valid

(***************************************************************************)
(* C8.  stop() never raises, and when it has returned the pending keys     *)
(* are flushed, the word buffer is empty, the log file is closed and the   *)
(* summary file holds the in-memory summary.                               *)
(***************************************************************************)
C8_StopCompletes ==
    /\ pc # "aborted"
    /\ pc = "stopped"
       => /\ pending_keys = <<>>
          /\ word_buffer = <<>>
          /\ ~log_open
          /\ disk = FileOf(summary)

(***************************************************************************)
(* C4.  Whatever the configured points and the score the document held     *)
(* when it was loaded, every update of word_accuracy leaves                *)
(* 0 <= score <= accuracy_target.                                          *)
(***************************************************************************)
C4_ScoreClamped ==
    [][summary'["word_accuracy"] # summary["word_accuracy"]
       => /\ 0 <= summary'["word_accuracy"].score
          /\ summary'["word_accuracy"].score <= accuracy_target]_vars

\* loaded with a score above the target, and scored twice since
C4_Witness ==
    /\ loaded.valid
    /\ loaded.doc["word_accuracy"].score > accuracy_target
    /\ Scored(summary) = 2
    /\ summary["word_accuracy"].score <= accuracy_target

(***************************************************************************)
(* C5.  Finalizing a word shorter than min_word_length leaves              *)
(* word_accuracy (score, correct, incorrect) as it was.                    *)
(***************************************************************************)
C5_ShortWordNotScored ==
    [][\A key \in AllKeys :
          (PressOf(key) /\ DelimiterFinalizing(key)
             /\ Len(Join(word_buffer)) < min_length)
          => summary'["word_accuracy"] = summary["word_accuracy"]]_vars

(***************************************************************************)
(* C6.  The event of an on_press carries rage_click exactly when the press *)
(* is at least the 4th of a run of presses of the same normalized key in   *)
(* which every press after the first came less than 450 ms after the one   *)
(* before it.                                                              *)
(***************************************************************************)
RECURSIVE RunLength(_)
RunLength(log) ==
    IF Len(log) <= 1 THEN Len(log)
    ELSE LET last == log[Len(log)]
             prev == log[Len(log) - 1]
         IN  IF last[1] = prev[1] /\ last[2] < MinRageIntervalMs
             THEN 1 + RunLength(SubSeq(log, 1, Len(log) - 1))
             ELSE 1

C6_RageClickFromFourthPress ==
    [][\A key \in AllKeys :
          (PressOf(key) /\ pc' = "idle")
          => LET rec == CHOOSE r \in {pending_keys'[i] : i \in 1..Len(pending_keys')} :
                           r.key = key
             IN  ("rage_click" \in rec.event.behaviors)
                    <=> RunLength(press_log') >= RageStreakMin]_vars

(***************************************************************************)
(* C9.  Constructed on a JSON object that lacks fields of the summary, the *)
(* logger holds every field (the missing ones at their defaults), and no   *)
(* handler fails on a missing field afterwards.                            *)
(***************************************************************************)
C9_MissingFieldsDefaulted ==
    /\ SummaryFields \subseteq DOMAIN summary
    /\ raised # "KeyError"

(***************************************************************************)
(* C10.  A logger constructed on a document the logger wrote, and stopped  *)
(* without any event, leaves the document as it was; so does doing it      *)
(* again.                                                                  *)
(***************************************************************************)
C10_ResumeIdempotent ==
    (pc = "stopped" /\ press_log = <<>> /\ loaded.valid) => disk = loaded

\* the third process was constructed on a document with a word in it and
\* has stopped without an event
C10_Witness ==
    /\ pc = "stopped"
    /\ press_log = <<>>
    /\ loaded.valid
    /\ runs = 3
    /\ loaded.doc["words"] >= 1
    /\ loaded.doc["total_events"] >= 2

(***************************************************************************)
(* C11.  Whenever on_press, on_release or stop() has returned, the stored  *)
(* typing_profile is the profile recomputed from the accumulators of the   *)
(* summary (interval_stats, key_press_lengths, long_pauses, total_events   *)
(* and the number of word_shapes samples).                                 *)
(***************************************************************************)
C11_ProfileIsRecomputed ==
    (pc \in {"idle", "stopped"} /\ summary["total_events"] > 0)
        => summary["typing_profile"] = Profile(summary)

(***************************************************************************)
(* C12.  Within one logger process every finalized event with key b adds   *)
(* exactly 1 to key_pairs[a][b], where a is the key of the finalized event *)
(* before it, and changes no other entry of key_pairs, also across a long  *)
(* pause; the first finalized event adds nothing; so the counts of         *)
(* key_pairs total the number of finalized events minus one.               *)
(***************************************************************************)
NormalizedKeys == {_normalize_key(key) : key \in AllKeys}
KeyPairCount(s, a, b) == Get(Get(s["key_pairs"], a, EmptyDict), b, 0)

RECURSIVE KeyPairsTotal(_, _)
KeyPairsTotal(s, pairs) ==
    IF pairs = {} THEN 0
    ELSE LET p == CHOOSE x \in pairs : TRUE
         IN  KeyPairCount(s, p[1], p[2]) + KeyPairsTotal(s, pairs \ {p})

\* the pending record this step finalizes
Finalized ==
    pending_keys[CHOOSE i \in 1..Len(pending_keys) :
                    pending_keys' = SubSeq(pending_keys, 1, i - 1)
                                      \o SubSeq(pending_keys, i + 1, Len(pending_keys))]

C12_KeyPairsFollowEvents ==
    [][IF log_lines' = log_lines + 1
       THEN LET b == Finalized.event.key
            IN  /\ last_logged_key' = Some(b)
                /\ \A x, y \in NormalizedKeys :
                      KeyPairCount(summary', x, y)
                        = KeyPairCount(summary, x, y)
                            + (IF last_logged_key = Some(x) /\ y = b THEN 1 ELSE 0)
                /\ KeyPairsTotal(summary', NormalizedKeys \X NormalizedKeys)
                      = log_lines' - 1
       ELSE /\ summary'["key_pairs"] = summary["key_pairs"]
            /\ last_logged_key' = last_logged_key]_vars

\* three events finalized, the pair a -> t counted across a long pause
C12_Witness ==
    /\ log_lines = 3
    /\ summary["long_pauses"] = 1
    /\ KeyPairCount(summary, <<"a">>, <<"t">>) = 1
    /\ KeyPairsTotal(summary, NormalizedKeys \X NormalizedKeys) = 2
    /\ \E i \in 1..Len(press_log) :
          /\ i > 1
          /\ press_log[i - 1][1] = <<"a">>
          /\ press_log[i][1] = <<"t">>
          /\ press_log[i][2] > LongPauseMs

(***************************************************************************)
(* C13.  A speed-session commit adds exactly 1 to earned when the session  *)
(* has a qualifying interval, its average interval is below                *)
(* baseline_interval_ms x interval_pct_threshold / 100 and its accuracy    *)
(* percentage (correct / total scored words) is at least                   *)
(* accuracy_pct_threshold, and leaves earned unchanged otherwise;          *)
(* last_avg_interval and last_accuracy_pct become the values of the        *)
(* session.                                                                *)
(***************************************************************************)
\* this step commits the speed session
CommitStep == speed_points' # speed_points \/ (session' # session /\ session' = ZeroSession)

C13_SpeedSessionGating ==
    [][(CommitStep /\ session.words_total > 0)
       => LET n == session.interval_count
              t == session.interval_total
              c == session.words_correct
              w == session.words_total
              fast == n >= 1 /\ 100 * t < speed_config.baseline_interval_ms
                                            * speed_config.interval_pct_threshold * n
              accurate == 100 * c >= speed_config.accuracy_pct_threshold * w
          IN  /\ speed_points'.earned
                    = speed_points.earned + (IF fast /\ accurate THEN 1 ELSE 0)
              /\ speed_points'.last_accuracy_pct.num * w
                    = 100 * c * speed_points'.last_accuracy_pct.den
              /\ n >= 1 => speed_points'.last_avg_interval.num * n
                              = t * speed_points'.last_avg_interval.den]_vars

\* a session of intervals 100 and 120 with two correct words earned a point,
\* and one with one incorrect word of two was committed without a point
C13_Witness ==
    /\ speed_config = DefaultSpeedConfig
    /\ speed_points.sessions = 2
    /\ speed_points.earned = 1
    /\ speed_points.last_accuracy_pct = Whole(50)
    /\ speed_points.last_avg_interval = Whole(110)

(***************************************************************************)
(* C14.  Every speed-session commit adds exactly 1 to sessions and at most *)
(* 1 to earned, whatever the session held, and resets the session          *)
(* accumulators; nothing else changes speed_points; so earned never        *)
(* exceeds sessions.                                                       *)
(***************************************************************************)
C14_OnePointPerSession ==
    [][/\ CommitStep
          => /\ speed_points'.sessions = speed_points.sessions + 1
             /\ speed_points'.earned \in {speed_points.earned, speed_points.earned + 1}
             /\ session' = ZeroSession
       /\ speed_points'.earned <= speed_points'.sessions]_vars

\* two qualifying sessions committed one after the other
C14_Witness ==
    /\ speed_points.sessions = 2
    /\ speed_points.earned = 2
    /\ session = ZeroSession

(***************************************************************************)
(* C15.  reset_daily on a summary writes a document in which every counter *)
(* is 0, every mapping of the summary is empty, first_event and last_event *)
(* are null and word_accuracy is zeroed, with the device_meta of the       *)
(* document before the reset.                                              *)
(***************************************************************************)
SummaryCounters ==
    {"total_events", "letters", "actions", "words", "rage_clicks", "long_pauses"}
SummaryMappings ==
    {"key_counts", "daily_activity", "daily_rage", "daily_word_counts",
     "key_pairs", "key_press_lengths", "word_durations", "word_counts",
     "word_pairs", "word_shapes"}

C15_ResetZeroesSummary ==
    [][(resets' = resets + 1 /\ disk.exists /\ disk.valid)
       => /\ disk'.valid
          /\ \A f \in SummaryCounters : Has(disk'.doc, f) /\ disk'.doc[f] = 0
          /\ \A f \in SummaryMappings : Has(disk'.doc, f) /\ disk'.doc[f] = EmptyDict
          /\ disk'.doc["first_event"] = None
          /\ disk'.doc["last_event"] = None
          /\ disk'.doc["word_accuracy"] = ZeroAccuracy
          /\ disk'.doc["device_meta"] = disk.doc["device_meta"]]_vars

(***************************************************************************)
(* C16.  A logger constructed on the document reset_daily wrote (over an   *)
(* existing summary or at an absent path) records its events without       *)
(* error, and after the first one the persisted summary has                *)
(* total_events = 1 and first_event = last_event = the time of that event. *)
(***************************************************************************)
LoadedReset ==
    /\ loaded.valid
    /\ loaded.doc = NewSummary(loaded.doc)

C16_LoggerWritesAfterReset ==
    [][LoadedReset
       => /\ log_lines' = log_lines + 1 => raised' = "none"
          /\ (pc = "persist_replace" /\ runs' = runs /\ log_lines = 1)
               => /\ disk'.valid
                  /\ disk'.doc["total_events"] = 1
                  /\ disk'.doc["first_event"] # None
                  /\ disk'.doc["first_event"] = disk'.doc["last_event"]
                  /\ disk'.doc["last_event"] = summary["last_event"]]_vars

\* the summary of an earlier process was reset, and the next process has
\* recorded and persisted its first event
C16_Witness ==
    /\ LoadedReset
    /\ loaded.doc["device_meta"] = DeviceMeta
    /\ log_lines = 1
    /\ pc = "idle"
    /\ disk.valid
    /\ disk.doc["total_events"] = 1

(***************************************************************************)
(* C17.  Injecting two words, each followed by the delimiter ("hey there   *)
(* "), into a fresh summary yields word_counts with each word counted once *)
(* and word_pairs with the one pair of them, and the concatenation of the  *)
(* two words is not scored as a word.                                      *)
(***************************************************************************)
\* <<keys, first word, second word>>
TwoWordInputs ==
    { <<HeyThere, <<"h","e","y">>, <<"t","h","e","r","e">> >>,
      << <<"a","t"," ","a"," ">>, <<"a","t">>, <<"a">> >> }
\* this step is a run of inject_keys that returned
InjectReturns == injected' # injected /\ returned' # None /\ (disk.exists => disk.valid)
LastInjected == injected'[Len(injected')]

C18_InjectPersistsAccuracy ==
    [][InjectReturns
       => /\ disk'.valid
          /\ Get(disk'.doc, "word_accuracy", ZeroAccuracy)
                = Get(Val(returned'), "word_accuracy", ZeroAccuracy)]_vars

(***************************************************************************)
(* C19.  inject_keys with a debug path appends to the debug log one        *)
(* "Word '<w>' earned" line for the word it scores, w being the            *)
(* lower-cased concatenation of the alphabetic keys.                       *)
(***************************************************************************)
NewDebugLines == SubSeq(debug_log', Len(debug_log) + 1, Len(debug_log'))

C19_InjectTracesWord ==
    [][(InjectReturns /\ debug_log' # debug_log /\ MockWord(LastInjected) # <<>>)
       => Cardinality({i \in 1..Len(NewDebugLines) :
                         /\ NewDebugLines[i].kind = "Word earned"
                         /\ NewDebugLines[i].word = MockWord(LastInjected)}) = 1]_vars

(***************************************************************************)
(* C20.  The handshake progress of a snapshot is min(80, S), S being the   *)
(* sum of the key_pairs counts over the pairs whose two keys both map onto *)
(* the 26-key layout at index distance 4 or more; it is 0 whenever the     *)
(* average interval is at or above the threshold of 250 ms; and it lies in *)
(* 0..80.                                                                  *)
(***************************************************************************)
\* position of a key on the layout, 0 when it does not map onto it
LayoutPosition(key) ==
    IF key = <<>> \/ \A i \in 1..26 : ASCII_LAYOUT[i] # LowerChar(key[1]) THEN 0
    ELSE CHOOSE i \in 1..26 : ASCII_LAYOUT[i] = LowerChar(key[1])
DistantPairs(s) ==
    { p \in PairEntries(Get(s, "key_pairs", EmptyDict)) :
        /\ LayoutPosition(p[1]) > 0
        /\ LayoutPosition(p[2]) > 0
        /\ Abs(LayoutPosition(p[1]) - LayoutPosition(p[2])) >= 4 }
DistantPairsTotal(s) == PairsTotal(Get(s, "key_pairs", EmptyDict), DistantPairs(s))
SpeedRef(s) == Get(Get(s, "typing_profile", EmptyDict), "avg_interval", 0)

C20_HandshakeIsCappedSum ==
    [][snapshot' # snapshot
       => LET s == disk.doc
              handshake == Val(snapshot').handshakeProgress
          IN  /\ SpeedRef(s) < HandshakeThreshold
                    => handshake = Min2(80, DistantPairsTotal(s))
              /\ SpeedRef(s) >= HandshakeThreshold => handshake = 0
              /\ handshake \in 0..80]_vars

\* a snapshot whose handshake progress is the cap, the sum being above it
C20_Witness ==
    /\ snapshot # None
    /\ Val(snapshot).handshakeProgress = 80
    /\ DistantPairsTotal(disk.doc) > 80
    /\ SpeedRef(disk.doc) < HandshakeThreshold

(***************************************************************************)
(* C21.  The progress document persist_widget_progress writes has          *)
(* wordAccuracyScore = max(0, min(score, target)) for the stored           *)
(* word_accuracy.score, negative and above-target scores included, so      *)
(* 0 <= wordAccuracyScore <= wordAccuracyTarget.                           *)
(***************************************************************************)
StoredScore(s) == Get(Get(s, "word_accuracy", EmptyDict), "score", 0)
\* this step is a persist_widget_progress call that wrote the progress file
ProgressWritten == widget_call' # widget_call /\ ~Val(widget_call').raised

C21_ProgressScoreClamped ==
    [][ProgressWritten
       => LET written == Val(progress')
              score == StoredScore(disk.doc)
          IN  /\ written["wordAccuracyTarget"] = accuracy_target
              /\ written["wordAccuracyScore"] =
                    IF score < 0 THEN 0
                    ELSE IF score > accuracy_target THEN accuracy_target
                    ELSE score
              /\ 0 <= written["wordAccuracyScore"]
              /\ written["wordAccuracyScore"] <= written["wordAccuracyTarget"]]_vars

\* a progress document written for a stored score below 0
C21_Witness ==
    /\ progress # None
    /\ disk.valid
    /\ StoredScore(disk.doc) < 0
    /\ Val(progress)["wordAccuracyScore"] = 0
    /\ Val(progress)["wordAccuracyTarget"] = accuracy_target

(***************************************************************************)
(* C22.  persist_widget_progress in sample mode leaves the summary object  *)
(* it loaded (its typing_profile included) and the summary file as they    *)
(* were: only the progress document is written.                            *)
(***************************************************************************)
SampleWritten == ProgressWritten /\ Val(widget_call').mode = "sample"

C22_SampleModeLeavesSummary ==
    [][SampleWritten
       => /\ Val(widget_call').loaded = disk.doc
          /\ disk' = disk
          /\ UNCHANGED <<Logger, Speed, Side, injected, returned, debug_log, resets,
                         snapshot, widget_settings, Insight>>]_vars

\* a sample-mode call whose snapshot was built from adjusted values while
\* the loaded summary kept its own
C22_Witness ==
    /\ widget_call # None
    /\ Val(widget_call).mode = "sample"
    /\ ~Val(widget_call).raised
    /\ progress # None
    /\ Val(widget_call).loaded = disk.doc
    /\ Val(widget_call).used["typing_profile"] # disk.doc["typing_profile"]
    /\ Val(progress)["keyProgress"] # disk.doc["total_events"]

(***************************************************************************)
(* C23.  apply_sample_adjustments replaces each of the six scaled counters *)
(* by round(value * ratio), the ratio clamped to [0, 1], so that a counter *)
(* of 0 stays 0 and no scaled counter exceeds its raw value, and sets      *)
(* typing_profile.avg_interval to the configured sample_avg_interval.      *)
(***************************************************************************)
ScaledCounters ==
    {"total_events", "letters", "actions", "words", "rage_clicks", "long_pauses"}
ClampedRatio ==
    LET ratio == widget_settings.sample_total_ratio
    IN  IF ratio.num < 0 THEN <<0, 1>>
        ELSE IF ratio.num > ratio.den THEN <<1, 1>>
        ELSE <<ratio.num, ratio.den>>

C23_SampleScalesCounters ==
    [][SampleWritten
       => LET raw == disk.doc
              adjusted == Val(widget_call').used
          IN  /\ \A key \in ScaledCounters :
                    /\ adjusted[key] =
                          RoundHalfEven(raw[key] * ClampedRatio[1], ClampedRatio[2])
                    /\ adjusted[key] <= raw[key]
                    /\ raw[key] = 0 => adjusted[key] = 0
              /\ adjusted["typing_profile"]["avg_interval"] =
                    widget_settings.sample_avg_interval]_vars

(***************************************************************************)
(* C24.  When the LLM call of run_cycle raises, run_cycle does not raise:  *)
(* it appends a "GPT request error" line to the debug log, writes the feed *)
(* with the local fallback message as analysis_text, writes the state and  *)
(* returns True.                                                           *)
(***************************************************************************)
\* this step ends a run_cycle call whose LLM call raised: the request came
\* back with an exception, or call_openai raised before sending it (in a
\* step that also logged the prompt)
CycleCallRaised ==
    \/ /\ insight_pc = "cycle_replied"
       /\ Val(insight_frame.reply).raises
       /\ insight_pc' = "idle"
    \/ /\ insight_pc = "idle"
       /\ insight_pc' = "idle"
       /\ Len(debug_log') > Len(debug_log)
       /\ debug_log'[Len(debug_log) + 1].kind = "GPT prompt"

C24_CycleSurvivesLlmError ==
    [][CycleCallRaised
       => /\ debug_log'[Len(debug_log')].kind = "GPT request error"
          /\ Cardinality({i \in Len(debug_log) + 1 .. Len(debug_log') :
                            debug_log'[i].kind = "GPT request error"}) = 1
          /\ feed' # None
          /\ Val(feed').iteration =
                (IF gpt_state = None THEN 0 ELSE Val(gpt_state).iteration) + 1
          /\ Val(feed').analysis_text =
                fallback_message(Val(progress), Val(feed').diff, Val(feed').iteration,
                                 insight_mode)
          /\ gpt_state' # None
          /\ Val(gpt_state').iteration = Val(feed').iteration
          /\ Val(gpt_state').last_snapshot = Val(progress)
          /\ Val(insight_ret').op = "run_cycle"
          /\ Val(insight_ret').result = "True"]_vars

\* a run_cycle call has returned True after its request raised
C24_Witness ==
    /\ insight_pc = "idle"
    /\ insight_ret # None
    /\ Val(insight_ret).op = "run_cycle"
    /\ Val(insight_ret).result = "True"
    /\ llm_env.sdk /\ llm_env.api_key
    /\ debug_log # <<>>
    /\ debug_log[Len(debug_log)].kind = "GPT request error"
    /\ feed # None
    /\ Val(feed).analysis_text.v = "[mode] iteration n: diff. You now sit at ..."
    /\ gpt_state # None

(***************************************************************************)
(* C25.  Every insight document written, the widget feed and the insight   *)
(* file, has a non-empty string as analysis_text, whatever the LLM call    *)
(* does.                                                                   *)
(***************************************************************************)
C25_AnalysisTextNeverEmpty ==
    /\ feed # None => Truthy(Val(feed).analysis_text)
    /\ insight_out # None => Truthy(Val(insight_out).analysis_text)

(***************************************************************************)
(* C26.  An insight operation that has made its LLM call eventually ends   *)
(* and writes its output, even if the call never comes back.               *)
(***************************************************************************)
C26_InsightEventuallyWrites ==
    (insight_pc \in {"cycle_calling", "run_calling"}) ~> (insight_pc = "idle")


(***************************************************************************)
(* C27.                                                                    *)
(***************************************************************************)
\* what the call was made with, from the arguments of the constructor
CheckedNormalized == StrStrip(StrLower(Val(checked).word), WhiteSpace)
ConfiguredLanguages ==
    LET ls == word_checker.args.languages
        given == IF ls = None \/ Val(ls) = <<>> THEN <<En>> ELSE Val(ls)
    IN  { StrLower(given[i]) : i \in 1..Len(given) }
ConfiguredLexicon ==
    LET ex == word_checker.args.extra_words
        fb == word_checker.args.fallback_words
    IN  UNION { Get(LANGUAGE_FALLBACK_WORDS, lang, {}) : lang \in ConfiguredLanguages }
          \cup { StrLower(w) : w \in (IF ex = None THEN {} ELSE Val(ex)) }
          \cup (IF fb = None THEN {} ELSE Val(fb))
FrequentIn(word, lang) ==
    /\ word_checker.zipf_frequency # None
    /\ lang \in Val(word_checker.zipf_frequency).langs
    /\ Get(Val(word_checker.zipf_frequency).freq, <<word, lang>>, 0)
          >= word_checker.args.threshold

\* C27: is_correct(word) is true exactly when the lower-cased, stripped word
\* has at least min_length characters and is in the lexicon (the lexicons of
\* the configured languages, the extra words, the supplied fallback words) or
\* has a frequency of at least the threshold in one configured language; so
\* without the oracle it is true exactly for the lexicon members of that
\* length, and a word of a language that is not configured is rejected.
C27_CorrectIffLexiconOrFrequent ==
    checked # None =>
        (Val(checked).result <=>
            /\ Len(CheckedNormalized) >= word_checker.args.min_length
            /\ \/ CheckedNormalized \in ConfiguredLexicon
               \/ \E lang \in ConfiguredLanguages :
                     FrequentIn(CheckedNormalized, lang))

\* the English word "the" is rejected by a Hebrew-only checker without the oracle
C27_Witness ==
    /\ checked # None
    /\ Val(checked).word = The
    /\ word_checker.args.languages = Some(<<He>>)
    /\ word_checker.zipf_frequency = None
    /\ ~Val(checked).result

(***************************************************************************)
(* C28.                                                                    *)
(***************************************************************************)
\* C28: when main() exits after the listener raised OSError or
\* PermissionError, the health status is "error", the log file is closed,
\* stop() has saved the summary and the error of the listener is the one
\* that leaves main(); also when no event was recorded.
C28_AdapterFailureFlushes ==
    (main_pc = "exited" /\ listener_error \in AdapterErrors) =>
        /\ health # None /\ Val(health).status = "error"
        /\ ~log_open
        /\ pc = "stopped" /\ disk = JsonDump(summary)
        /\ propagated = listener_error

(***************************************************************************)
(* C29.                                                                    *)
(***************************************************************************)
\* total_events of the summary the constructor of this process started from
LoadedTotal == Get(_load_existing_summary(loaded), "total_events", 0)
\* the events this process has added to total_events of the summary file
PersistedAdded == disk.doc["total_events"] - LoadedTotal
SummaryFileReadable ==
    disk.exists /\ disk.valid /\ Has(disk.doc, "total_events")
\* a step of the running process that finalizes an event
FinalizesEvent ==
    /\ runs' = runs
    /\ Get(summary', "total_events", 0) = Get(summary, "total_events", 0) + 1
\* the step that ends _persist_summary, and with it on_release
ReleaseCompletes == pc = "persist_replace" /\ runs' = runs

\* C29: a finalized event appends exactly one line to the raw log, before
\* the summary file counts it: wherever the process is cut, the lines it
\* appended are at least the events it added to total_events of the summary
\* file, and they are as many when an on_release call has completed.
C29_LineBeforePersistedCount ==
    [][ /\ FinalizesEvent => log_lines' = log_lines + 1
        /\ SummaryFileReadable' => log_lines' >= PersistedAdded'
        /\ ReleaseCompletes => (SummaryFileReadable' /\ log_lines' = PersistedAdded')
      ]_vars

\* the second process has completed an on_release on the file of the first
C29_Witness ==
    /\ runs = 2 /\ pc = "idle" /\ log_lines = 1
    /\ LoadedTotal = 1
    /\ SummaryFileReadable /\ PersistedAdded = 1

(***************************************************************************)
(* C30.                                                                    *)
(***************************************************************************)
\* press i of the log continues a run: it is of the key pressed before it,
\* at an interval that counts for the streak (non-zero, below the threshold)
Qualifying(log, i) ==
    /\ i > 1
    /\ log[i][1] = log[i - 1][1]
    /\ log[i][2] # 0
    /\ log[i][2] < MinRageIntervalMs
\* the length of the run that press i ends
RECURSIVE RunEndingAt(_, _)
RunEndingAt(log, i) ==
    IF Qualifying(log, i) THEN 1 + RunEndingAt(log, i - 1) ELSE 1
\* n - 3 for every run of n >= 4 presses: the presses from the 4th of a run on
RunsRage(log) ==
    Cardinality({ i \in 1..Len(log) : RunEndingAt(log, i) >= RageStreakMin })
\* every press of the log was released, and its event counted
AllFinalized == pc = "idle" /\ pending_keys = <<>> /\ log_lines = Len(press_log)
DailyRageTotal == SumOver(summary["daily_rage"], DOMAIN summary["daily_rage"])

\* C30: when every press is finalized, each run of n >= 4 qualifying presses
\* of one key has added n - 3 to rage_clicks and to daily_rage: the flag is
\* on every event of the run from the 4th on.
C30_RunAddsAllButThree ==
    AllFinalized =>
        /\ summary["rage_clicks"] = RunsRage(press_log)
        /\ DailyRageTotal = RunsRage(press_log)
        /\ DOMAIN summary["daily_rage"] \subseteq
               { DateLabel(now - d) : d \in 0..now }

\* a run of five presses has added two
C30_Witness ==
    /\ AllFinalized
    /\ Len(press_log) = 5
    /\ RunEndingAt(press_log, 5) = 5
    /\ summary["rage_clicks"] = 2
    /\ DailyRageTotal = 2

(***************************************************************************)
(* C31.                                                                    *)
(***************************************************************************)
\* the presses of x directly followed by a press of y, in the order of the
\* on_press calls
PressedInOrder(log, x, y) ==
    Cardinality({ i \in 2..Len(log) : log[i - 1][1] = x /\ log[i][1] = y })
\* every press was of a key that was up, and all were released and counted
EachPressFinalized ==
    pc = "idle" /\ pending_keys = <<>> /\ log_lines = Len(press_log)

\* C31: key_pairs[a][b] counts the presses of a directly followed by a press
\* of b, in the order of the presses, whatever the order of the releases.
C31_KeyPairsFollowPressOrder ==
    EachPressFinalized =>
        \A x, y \in NormalizedKeys :
            KeyPairCount(summary, x, y) = PressedInOrder(press_log, x, y)

(***************************************************************************)
(* C32.                                                                    *)
(***************************************************************************)
KeyCountsTotal(s) == SumOver(s["key_counts"], DOMAIN s["key_counts"])

\* C32: a key that is still down when stop() is called is dropped: the
\* flush of stop() writes no line to the raw log and counts no event in
\* total_events or key_counts.
C32_StopDropsPendingKeys ==
    [][pc = "stop_flush" =>
          /\ log_lines' = log_lines
          /\ summary'["total_events"] = summary["total_events"]
          /\ KeyCountsTotal(summary') = KeyCountsTotal(summary)]_vars

(***************************************************************************)
(* C33.                                                                    *)
(***************************************************************************)
\* C33: when stop() has returned, every on_press call of the process has
\* given one finalized event: total_events has grown by the number of
\* on_press calls and no key is pending, also when a key was pressed again
\* before its release.
C33_StopFinalizesEveryPress ==
    pc = "stopped" =>
        /\ pending_keys = <<>>
        /\ summary["total_events"] = Len(press_log)

(***************************************************************************)
(* C34.                                                                    *)
(***************************************************************************)
\* the progress document the cycle that ends in this step has read
CycleRead == IF insight_pc = "idle" THEN progress ELSE Some(insight_frame.snapshot)
StoredIteration == IF gpt_state = None THEN 0 ELSE Val(gpt_state).iteration
PreviousSnapshot == IF gpt_state = None THEN EmptyDict ELSE Val(gpt_state).last_snapshot
\* this step is the return of a run_cycle call
CycleReturns ==
    /\ insight_pc \in {"idle", "cycle_replied"}
    /\ insight_pc' = "idle"
    /\ <<insight_ret, feed, gpt_state>>' # <<insight_ret, feed, gpt_state>>
\* this step is a run_cycle call that reaches its LLM request
CycleCalls == insight_pc = "idle" /\ insight_pc' = "cycle_calling"

\* C34: a run_cycle that finds the progress file writes the feed and the
\* state with the stored iteration plus one (1 without a state file), the
\* state holds the progress it read and the diff is against the snapshot the
\* cycle before stored; without a progress file it returns False and writes
\* neither file.
C34_CyclesNumberedInSequence ==
    [][ /\ CycleCalls =>
              /\ insight_frame'.snapshot = Val(progress)
              /\ insight_frame'.iteration = StoredIteration + 1
              /\ insight_frame'.diff_lines = describe_diff(Val(progress), PreviousSnapshot)
              /\ feed' = feed /\ gpt_state' = gpt_state
        /\ CycleReturns =>
              IF CycleRead = None
              THEN /\ Val(insight_ret').result = "False"
                   /\ feed' = feed /\ gpt_state' = gpt_state
              ELSE /\ Val(insight_ret').result = "True"
                   /\ Val(feed').iteration = StoredIteration + 1
                   /\ Val(feed').progress = Val(CycleRead)
                   /\ Val(feed').diff = describe_diff(Val(CycleRead), PreviousSnapshot)
                   /\ Val(gpt_state').iteration = StoredIteration + 1
                   /\ Val(gpt_state').last_snapshot = Val(CycleRead)
      ]_vars

\* the second cycle has run on a progress that differs from the one of the first
C34_Witness ==
    /\ insight_pc = "idle"
    /\ gpt_state # None /\ Val(gpt_state).iteration = 2
    /\ feed # None /\ Val(feed).iteration = 2
    /\ Val(feed).diff # <<>>
    /\ Val(gpt_state).last_snapshot = Val(feed).progress

(***************************************************************************)
(* C35.                                                                    *)
(***************************************************************************)
\* the texts of the insight file that can serve as the cached insight
CachedCandidates ==
    IF insight_out = None THEN <<>>
    ELSE LET data == Val(insight_out)
         IN  <<Get(data, "analysis_text", Null), Get(data, "analysis", Null),
               Get(Get(data, "structured", EmptyDict), "analysis_text", Null)>>
CachedPresent == \E i \in 1..Len(CachedCandidates) : Truthy(CachedCandidates[i])
CachedText ==
    CachedCandidates[CHOOSE i \in 1..Len(CachedCandidates) :
                        /\ Truthy(CachedCandidates[i])
                        /\ \A j \in 1..(i - 1) : ~Truthy(CachedCandidates[j])]
\* this step of run_cycle goes to the LLM: it logs the prompt for call_openai
CycleAsksLlm ==
    /\ Len(debug_log') > Len(debug_log)
    /\ debug_log'[Len(debug_log) + 1].kind = "GPT prompt"

\* C35: run_cycle goes to the LLM only when it is no dry run and there is
\* no cached insight text; in a dry run or with a cached insight the feed
\* gets the cached text if there is one and the local fallback message
\* otherwise, and the LLM is not called.
C35_LlmOnlyWithoutCacheOrDryRun ==
    [][\A dry_run \in BOOLEAN :
          (progress # None /\ run_cycle_call(dry_run)) =>
              /\ (CycleAsksLlm \/ insight_pc' = "cycle_calling")
                    => (~dry_run /\ ~CachedPresent)
              /\ (dry_run \/ CachedPresent) =>
                    /\ ~CycleAsksLlm
                    /\ insight_pc' = "idle"
                    /\ feed' # None
                    /\ Val(feed').analysis_text =
                          (IF CachedPresent THEN CachedText
                           ELSE fallback_message(Val(progress), Val(feed').diff,
                                                 Val(feed').iteration, insight_mode))
      ]_vars

\* a cycle has reused the cached insight although the LLM could be called
C35_Witness ==
    /\ insight_pc = "idle"
    /\ llm_env.sdk /\ llm_env.api_key
    /\ CachedPresent
    /\ feed # None /\ Val(feed).analysis_text = CachedText
    /\ debug_log # <<>>
    /\ debug_log[Len(debug_log)].kind = "Reusing cached insight"

(***************************************************************************)
(* C36.                                                                    *)
(***************************************************************************)
\* this step is a run() that has read the summary file
RunReads == run_call /\ disk.exists /\ disk.valid
\* the summary is the one an earlier run succeeded on, and its output is there
InsightUpToDate ==
    /\ insight_meta # None
    /\ Val(insight_meta).summary_hash = disk.doc
    /\ Val(insight_meta).last_success
    /\ insight_out # None
\* this step writes the insight of a fallback
WritesFallback ==
    /\ insight_out' # None
    /\ <<insight_out, insight_meta>>' # <<insight_out, insight_meta>>
    /\ fallback_structured(EmptyDict, FALSE).insights
          = Get(Get(Val(insight_out'), "structured", EmptyDict), "insights", "")

\* C36: run() skips the LLM call and leaves the output as it is exactly when
\* the hash of the summary is the one recorded by a run with last_success
\* true and the output file exists; a run that ends in a fallback records
\* last_success false, so that the next run on that summary generates again.
C36_SkipsOnlyAfterSuccess ==
    [][ /\ RunReads =>
              IF InsightUpToDate
              THEN /\ insight_pc' = "idle"
                   /\ Val(insight_ret').result = "skipped"
                   /\ insight_out' = insight_out /\ insight_meta' = insight_meta
              ELSE \/ insight_pc' = "run_calling"
                   \/ /\ Val(insight_ret').result = "written"
                      /\ insight_out' # None /\ insight_meta' # None
                      /\ Val(insight_meta').summary_hash = disk.doc
        /\ WritesFallback => ~Val(insight_meta').last_success
        /\ (insight_pc = "idle" /\ insight_meta' # insight_meta) =>
              WritesFallback
      ]_vars

\* a run has skipped, after a run that succeeded on the same summary
C36_Witness ==
    /\ insight_pc = "idle"
    /\ insight_ret # None /\ Val(insight_ret).result = "skipped"
    /\ InsightUpToDate


(***************************************************************************)
(* C37.                                                                    *)
(***************************************************************************)
DictTotal(d) == SumOver(d, DOMAIN d)

\* C37: in the summary of a logger started on no file, total_events equals
\* letters + actions, the sum of key_counts and the sum of daily_activity,
\* rage_clicks equals the sum of daily_rage, and neither rage_clicks nor
\* long_pauses exceeds total_events.
C37_EventCountersAgree ==
    /\ summary["total_events"] = summary["letters"] + summary["actions"]
    /\ summary["total_events"] = DictTotal(summary["key_counts"])
    /\ summary["total_events"] = DictTotal(summary["daily_activity"])
    /\ summary["rage_clicks"] = DictTotal(summary["daily_rage"])
    /\ summary["rage_clicks"] <= summary["total_events"]
    /\ summary["long_pauses"] <= summary["total_events"]

\* four events of which the last is a rage click, and stop()
C37_Witness ==
    /\ pc = "stopped"
    /\ summary["total_events"] = 4
    /\ summary["rage_clicks"] = 1
    /\ DictTotal(summary["daily_rage"]) = 1

\* C38: on a summary that starts fresh, in every state: words equals the sum
\* of word_counts, the sum over all days of daily_word_counts and the sum of
\* word_durations[w].count; the word_pairs counts sum to at most
\* max(0, words - 1); and word_accuracy.correct + incorrect is at most words
NestedTotal(d) == SumOver([k \in DOMAIN d |-> DictTotal(d[k])], DOMAIN d)
WordDurations == Get(summary, "word_durations", EmptyDict)
WordAccuracy == Get(summary, "word_accuracy", ZeroAccuracy)
C38_WordCountersAgree ==
    /\ summary["words"] = DictTotal(summary["word_counts"])
    /\ summary["words"] = NestedTotal(summary["daily_word_counts"])
    /\ summary["words"] = SumField(WordDurations, DOMAIN WordDurations, "count")
    /\ NestedTotal(summary["word_pairs"]) <= Max2(0, summary["words"] - 1)
    /\ WordAccuracy["correct"] + WordAccuracy["incorrect"] <= summary["words"]
\* two words, the first ended by tab and scored, the second by stop() and
\* not scored, the second following the first
C38_Witness ==
    /\ pc = "stopped"
    /\ summary["words"] = 2
    /\ NestedTotal(summary["word_pairs"]) = 1
    /\ WordAccuracy["correct"] + WordAccuracy["incorrect"] = 1


(***************************************************************************)
(* C39.                                                                    *)
(***************************************************************************)
\* C39: once an event has been finalized, first_event is the earliest and
\* last_event the latest press time of the finalized events, so first_event
\* is never later than last_event, whatever the order of the releases.
C39_FirstEventNotAfterLast ==
    summary["total_events"] >= 1 =>
        /\ summary["first_event"] # None
        /\ summary["last_event"] # None
        /\ Val(summary["first_event"]) <= Val(summary["last_event"])


(***************************************************************************)
(* C40.                                                                    *)
(***************************************************************************)
WordShapes == Get(summary, "word_shapes", EmptyDict)
\* C40: every entry of word_shapes[w] holds one duration and one interval
\* for each letter of w, whatever the order of the presses and releases and
\* whatever character keys were typed inside the word.
C40_ShapeHasOneSamplePerLetter ==
    \A w \in DOMAIN WordShapes :
        \A i \in 1..Len(WordShapes[w]) :
            /\ Len(WordShapes[w][i].durations) = Len(w)
            /\ Len(WordShapes[w][i].intervals) = Len(w)

====
